---------------------------- MODULE Spec2Model ----------------------------
(***************************************************************************)
(* EDF FreePhase Dynamic Tariff integration: slot classification, the      *)
(* unified dataset and the current slot of a refresh, phase blocks, and    *)
(* the cost coordinator's deltas, slot alignment and period summary.       *)
(*                                                                         *)
(* Instants are integers.  classify_slot works on minutes; the tariff      *)
(* timeline and the meter readings work on quarter-hour ticks, a slot      *)
(* being SlotTicks ticks long.  Energy is an exact fraction num / KwhDen   *)
(* of a kWh, money an exact fraction of a pound; round(x, 4) is modelled   *)
(* as the nearest multiple of 10^-4.                                       *)
(***************************************************************************)
EXTENDS Integers, Sequences, FiniteSets, TLC

VARIABLES
    pc,             \* "start" before the operation under study ran, "done" after
    \* ---- classify_slot(start_time, price)
    start_time,     \* the slot's start instant, in minutes
    price,          \* the slot's VAT-inclusive price
    phase,          \* what classify_slot returned: [label, line]
    \* ---- group_phase_blocks(slots)
    slots,          \* the normalised slots passed in, in the caller's order
    blocks,         \* the list of blocks returned
    \* ---- EDFCoordinator._async_update_data, interval stage
    raw_items,      \* what fetch_all_pages(api_url) returned, in page order
    now,            \* datetime.now(timezone.utc) of the refresh, in ticks
    unified,        \* build_unified_dataset(raw_items): [raised, slots]
    current_raw,    \* the slot selected as current, NoSlot for None
    current_slot,   \* data["current_slot"], NoNormSlot for None
    current_price,  \* data["current_price"], NoPrice for None
    next_price,     \* data["next_price"], NoPrice for None
    \* ---- CostCoordinator._compute_period_cost and its two helpers
    cost_slots,     \* the slots passed in: today's or yesterday's EDF slots
    end_override,   \* the instant slots are cut off at, NoTime for None
    states,         \* the import sensor's recorded states, oldest first
    period_start,   \* start of the first kept slot
    period_end,     \* end of the last kept slot
    norm_slots,     \* the kept slots, sorted by start
    deltas,         \* what _compute_deltas returned
    slot_costs,     \* what _align_deltas_to_slots returned
    summary,        \* the dict returned, NoSummary for None
    \* ---- build_forecasts(unified, now)
    forecasts,      \* the dict of the four windows returned
    \* ---- EDFCoordinator, one refresh after another
    data,           \* self.data: the dict the last refresh returned
    clock,          \* the instant of the last refresh, in ticks
    inputs,         \* what the stages of the last refresh met
    previous_updated, \* self.data["last_updated"] as the last refresh read it
    last_success,   \* the instant of the last refresh that returned slots
    previous_success, \* last_success as it was before the last refresh
    \* ---- EDFCoordinator and CostCoordinator, step by step
    edf_pc,         \* where the refresh of EDFCoordinator in flight is suspended
    edf_cycle,      \* the number of refreshes EDFCoordinator has started
    edf_stage,      \* what the stages of the refresh in flight met so far
    edf_data,       \* EDFCoordinator.data and the refresh that returned it
    import_sensor,  \* an import sensor is configured
    cost_pc,        \* where the refresh of CostCoordinator in flight is suspended
    cost_cycle,     \* the number of refreshes CostCoordinator has started
    cost_read,      \* what the refresh in flight read from EDFCoordinator.data
    cost_yesterday, \* yesterday's result of the refresh in flight
    cost_data,      \* CostCoordinator.data
    \* ---- AlignedScheduler and EDFCoordinator._handle_refresh
    scan_steps,     \* the scan interval, in steps of 5 s
    sched_now,      \* the time, in steps of 5 s
    boundary,       \* scheduler._next_boundary_utc
    timer,          \* when the callback set by async_call_later fires
    in_flight,      \* the refreshes that have started and not returned
    started,        \* the number of refreshes started
    \* ---- find_current_block, compute_phase_summaries, _find_next_phase_colour
    given,          \* the current_slot argument of the lookup
    current_block,  \* what find_current_block returned, <<>> for None
    next_block,     \* the next block of compute_phase_summaries, <<>> for None
    next_phase_colour, \* what _find_next_phase_colour returned, "None" for None
    \* ---- EDFFreePhaseDynamicSlotEventEntity, one coordinator update after another
    prev_phase,     \* self._prev_phase
    prev_slot,      \* self._prev_slot
    prev_next_phase_colour, \* self._prev_next_phase_colour
    ending_soon_fired_for_end_dt, \* self._ending_soon_fired_for_end_dt
    coordinator_data, \* coordinator.data as the last update read it
    event_now,      \* dt_util.utcnow() of the last update, in ticks
    emitted,        \* the events the last update emitted, in order
    event_history,  \* the events emitted so far, in order
    previous_data,  \* coordinator.data as the update before the last read it
    updates,        \* the number of updates handled
    \* ---- fetch_all_pages(api_url, max_pages)
    server,         \* the page the API answers with, for each url
    max_pages,      \* the max_pages argument
    url,            \* the url to request next, 0 for None
    requests,       \* the pages requested, in order
    results,        \* [raised, items]: how the call ended and the list returned
    \* ---- AlignedScheduler._compute_delay
    next_refresh_delay,  \* the delay of the last call
    next_refresh_jitter, \* the jitter of the last call
    delay_calls,    \* the number of calls
    \* ---- EDFCoordinator from setup to async_shutdown
    revision,       \* which EDFCoordinator runs: the one on AlignedScheduler or
                    \* the one of coordinator.py, which schedules by itself
    callbacks,      \* the callbacks set by async_call_later and not yet fired
                    \* or cancelled
    unsub,          \* the callback the handle _unsub cancels, 0 for None
    scheduled,      \* the number of callbacks set so far
    failed_refresh, \* the last refresh whose fetch failed, 0 for none
    shutdown_done,  \* async_shutdown has returned
    started_at_shutdown \* the refreshes started when it returned

classify_vars == <<start_time, price, phase>>
block_vars == <<slots, blocks>>
refresh_vars == <<raw_items, now, unified, current_raw, current_slot, current_price, next_price>>
cost_vars == <<cost_slots, end_override, states, period_start, period_end,
               norm_slots, deltas, slot_costs, summary>>
forecast_vars == <<forecasts>>
\* the variables of the operations modelled after the cost coordinator
heartbeat_vars == <<data, clock, inputs, previous_updated, last_success, previous_success>>
pipeline_vars ==
    <<edf_pc, edf_cycle, edf_stage, edf_data, import_sensor, cost_pc, cost_cycle,
      cost_read, cost_yesterday, cost_data>>
schedule_vars == <<scan_steps, sched_now, boundary, timer, in_flight, started>>
\* the variables of the lookups, the event entity, the API client and the
\* lifecycle of the scheduler
lookup_vars == <<given, current_block, next_block, next_phase_colour>>
event_vars ==
    <<prev_phase, prev_slot, prev_next_phase_colour, ending_soon_fired_for_end_dt,
      coordinator_data, event_now, emitted, event_history, previous_data, updates>>
client_vars == <<server, max_pages, url, requests, results>>
delay_vars == <<next_refresh_delay, next_refresh_jitter, delay_calls>>
lifecycle_vars ==
    <<revision, callbacks, unsub, scheduled, failed_refresh, shutdown_done,
      started_at_shutdown>>
third_vars == <<lookup_vars, event_vars, client_vars, delay_vars, lifecycle_vars>>
later_vars == <<forecast_vars, heartbeat_vars, pipeline_vars, schedule_vars, third_vars>>
vars == <<pc, classify_vars, block_vars, refresh_vars, cost_vars, later_vars>>

---------------------------------------------------------------------------
(* Bounds of the model *)

\* days the start instants of classify_slot range over
MaxDay == 1
\* prices range over -MaxPrice .. MaxPrice
MaxPrice == 2

\* slots in one list, raw records in one API answer
MaxSlots == 3
\* the instants of the timeline are the ticks 0 .. MaxTick
MaxTick == 6

\* states of the import sensor in one recorder answer
MaxReadings == 4
\* the meter reads 0 .. MaxVal
MaxVal == 2
\* deltas in one list passed to _align_deltas_to_slots
MaxDeltas == 2
\* the largest quantity of such a delta
MaxKwh == 4

Prices == (0 - MaxPrice) .. MaxPrice

---------------------------------------------------------------------------
(* Values standing for Python's None *)

NoTime == 0 - 1
NotClassified == [label |-> "", line |-> 0]
NoPrice == MaxPrice + 1
NoSlot == [start |-> NoTime, end |-> NoTime, value |-> NoPrice, phase |-> ""]
NoNormSlot == [start_dt |-> NoTime, end_dt |-> NoTime, value |-> NoPrice, phase |-> "None"]
NotBuilt == [raised |-> FALSE, slots |-> <<>>]
NoForecasts ==
    [next_24_hours |-> <<>>, today_24_hours |-> <<>>,
     tomorrow_24_hours |-> <<>>, yesterday_24_hours |-> <<>>]
NoSummary ==
    [is_none |-> TRUE, total_kwh |-> 0, total_cost |-> 0,
     per_phase |-> <<>>, per_slot |-> <<>>]

---------------------------------------------------------------------------
(* classify_slot *)

MinutesPerDay == 24 * 60

\* datetime.time(h, m), as minutes since midnight
time(h, m) == h * 60 + m

\* dt = isoparse(start_time); t = dt.time()
TimeOfDay(instant) == instant % MinutesPerDay

\* The mutant of C6: the time-of-day windows are tried before the price.
classify_return_time_first(st, p) ==
    LET t == TimeOfDay(st) IN
    IF time(23, 0) <= t \/ t < time(6, 0) THEN [label |-> "Green", line |-> 69]
    ELSE IF time(6, 0) <= t /\ t < time(16, 0) THEN [label |-> "Amber", line |-> 72]
    ELSE IF time(16, 0) <= t /\ t < time(19, 0) THEN [label |-> "Red", line |-> 75]
    ELSE IF p <= 0 THEN [label |-> "Green", line |-> 66]
    ELSE IF time(19, 0) <= t /\ t < time(23, 0) THEN [label |-> "Amber", line |-> 78]
    ELSE [label |-> "Amber", line |-> 81]

\* The mutant of C7: the peak window opens strictly after 16:00.
classify_return_open_peak(st, p) ==
    LET t == TimeOfDay(st) IN
    IF p <= 0 THEN [label |-> "Green", line |-> 66]
    ELSE IF time(23, 0) <= t \/ t < time(6, 0) THEN [label |-> "Green", line |-> 69]
    ELSE IF time(6, 0) <= t /\ t < time(16, 0) THEN [label |-> "Amber", line |-> 72]
    ELSE IF time(16, 0) < t /\ t < time(19, 0) THEN [label |-> "Red", line |-> 75]
    ELSE IF time(19, 0) <= t /\ t < time(23, 0) THEN [label |-> "Amber", line |-> 78]
    ELSE [label |-> "Amber", line |-> 81]

\* classify_slot's if-chain: the label returned and the source line of the
\* return statement that returned it.
classify_return(st, p) ==
    LET t == TimeOfDay(st) IN
    IF p <= 0 THEN [label |-> "Green", line |-> 66]
    ELSE IF time(23, 0) <= t \/ t < time(6, 0) THEN [label |-> "Green", line |-> 69]
    ELSE IF time(6, 0) <= t /\ t < time(16, 0) THEN [label |-> "Amber", line |-> 72]
    ELSE IF time(16, 0) <= t /\ t < time(19, 0) THEN [label |-> "Red", line |-> 75]
    ELSE IF time(19, 0) <= t /\ t < time(23, 0) THEN [label |-> "Amber", line |-> 78]
    ELSE [label |-> "Amber", line |-> 81]

classify_slot(st, p) == classify_return(st, p).label

\* the line of classify_slot's last, fallback return
FallbackReturnLine == 81

StartTimes == 0 .. (MaxDay * MinutesPerDay - 1)

ClassifyIdle ==
    /\ start_time = NoTime
    /\ price = 0
    /\ phase = NotClassified

BlocksIdle ==
    /\ slots = <<>>
    /\ blocks = <<>>

RefreshIdle ==
    /\ raw_items = <<>>
    /\ now = 0
    /\ unified = NotBuilt
    /\ current_raw = NoSlot
    /\ current_slot = NoNormSlot
    /\ current_price = NoPrice
    /\ next_price = NoPrice

CostIdle ==
    /\ cost_slots = <<>>
    /\ end_override = NoTime
    /\ states = <<>>
    /\ period_start = NoTime
    /\ period_end = NoTime
    /\ norm_slots = <<>>
    /\ deltas = <<>>
    /\ slot_costs = <<>>
    /\ summary = NoSummary

ForecastIdle == forecasts = NoForecasts

\* the flags of the heartbeat, all of them in every result
FlagNames ==
    {"metadata_error", "api_error", "no_data", "parsing_error", "unexpected_format",
     "rate_limited", "scheduler_error", "import_sensor_missing",
     "import_sensor_unavailable", "stale", "partial", "standing_charge_error",
     "standing_charge_missing"}

NoFlags == [f \in FlagNames |-> FALSE]

\* format_phase_block(block), {} and None both written NoBlockSummary
NoBlockSummary == [phase |-> "None", start_dt |-> NoTime, end_dt |-> NoTime, value |-> NoPrice]

\* self.data before the first refresh: None
NoData ==
    [keys |-> {}, flags |-> NoFlags, coordinator_status |-> "None", last_updated |-> NoTime,
     current_price |-> NoPrice, next_price |-> NoPrice, current_slot |-> NoNormSlot,
     next_24_hours |-> <<>>, today_24_hours |-> <<>>, tomorrow_24_hours |-> <<>>,
     yesterday_24_hours |-> <<>>, all_slots_sorted |-> <<>>,
     current_block_summary |-> NoBlockSummary, next_block_summary |-> NoBlockSummary,
     tariff_metadata |-> "empty", standing_charge_inc_vat |-> NoPrice]

NoInputs == [meta_ok |-> TRUE, standing |-> "ok", answer |-> [kind |-> "none", items |-> <<>>]]

HeartbeatIdle ==
    /\ data = NoData
    /\ clock = 0
    /\ inputs = NoInputs
    /\ previous_updated = NoTime
    /\ last_success = NoTime
    /\ previous_success = NoTime

---------------------------------------------------------------------------
(* The two coordinators of one config entry, step by step: EDFCoordinator
   refreshes on the aligned scheduler, CostCoordinator on its own
   update_interval timer; each suspends at its awaits *)

\* the result of one _compute_period_cost call: raised tells that an
\* exception left it; windows_cycle and standing_cycle tell which refresh of
\* EDFCoordinator the slots and the standing charge were read from
NoPeriod ==
    [summary |-> NoSummary, raised |-> FALSE, standing_charge_inc_vat |-> NoPrice,
     windows_cycle |-> 0, standing_cycle |-> 0]

CostFlagNames == {"history_missing", "no_deltas", "partial", "error"}

\* CostCoordinator.data before the first refresh
NoCostData ==
    [keys |-> {}, yesterday |-> NoPeriod, today |-> NoPeriod,
     flags |-> [f \in CostFlagNames |-> FALSE], coordinator_status |-> "None",
     standing_charge_inc_vat |-> NoPrice]

\* what line 232 and the lines after it read from the EDF coordinator
NoCostRead == [cycle |-> 0, yesterday_slots |-> <<>>, today_slots |-> <<>>,
               standing_charge_inc_vat |-> NoPrice]

PipelineIdle ==
    /\ edf_pc = "idle"
    /\ edf_cycle = 0
    /\ edf_stage = [meta_ok |-> TRUE, standing |-> "ok"]
    /\ edf_data = [cycle |-> 0, data |-> NoData]
    /\ import_sensor = FALSE
    /\ cost_pc = "idle"
    /\ cost_cycle = 0
    /\ cost_read = NoCostRead
    /\ cost_yesterday = NoPeriod
    /\ cost_data = NoCostData

ScheduleIdle ==
    /\ scan_steps = 0
    /\ sched_now = 0
    /\ boundary = NoTime
    /\ timer = NoTime
    /\ in_flight = {}
    /\ started = 0

LookupIdle ==
    /\ given = NoNormSlot
    /\ current_block = <<>>
    /\ next_block = <<>>
    /\ next_phase_colour = "None"

\* coordinator.data as the event entity reads it: current_slot and
\* all_slots_sorted
NoEventData == [current_slot |-> NoNormSlot, all_slots_sorted |-> <<>>]

EventIdle ==
    /\ prev_phase = "None"
    /\ prev_slot = NoNormSlot
    /\ prev_next_phase_colour = "None"
    /\ ending_soon_fired_for_end_dt = NoTime
    /\ coordinator_data = NoEventData
    /\ event_now = 0
    /\ emitted = <<>>
    /\ event_history = <<>>
    /\ previous_data = NoEventData
    /\ updates = 0

\* raised: an exception left the call; timed_out: it was the timeout's
NotFetched == [raised |-> FALSE, timed_out |-> FALSE, items |-> <<>>]

ClientIdle ==
    /\ server = <<>>
    /\ max_pages = 0
    /\ url = 0
    /\ requests = <<>>
    /\ results = NotFetched

DelayIdle ==
    /\ next_refresh_delay = NoTime
    /\ next_refresh_jitter = NoTime
    /\ delay_calls = 0

LifecycleIdle ==
    /\ revision = "None"
    /\ callbacks = {}
    /\ unsub = 0
    /\ scheduled = 0
    /\ failed_refresh = 0
    /\ shutdown_done = FALSE
    /\ started_at_shutdown = 0

ThirdIdle == LookupIdle /\ EventIdle /\ ClientIdle /\ DelayIdle /\ LifecycleIdle

LaterIdle == ForecastIdle /\ HeartbeatIdle /\ PipelineIdle /\ ScheduleIdle /\ ThirdIdle


InitClassify ==
    /\ pc = "start"
    /\ BlocksIdle
    /\ RefreshIdle
    /\ CostIdle
    /\ LaterIdle
    /\ start_time \in StartTimes
    /\ price \in Prices
    /\ phase = NotClassified

\* one call classify_slot(start_time, price)
Classify ==
    /\ pc = "start"
    /\ phase' = classify_return(start_time, price)
    /\ pc' = "done"
    /\ UNCHANGED <<start_time, price, block_vars, refresh_vars, cost_vars, later_vars>>

NextClassify == Classify

SpecClassify == InitClassify /\ [][NextClassify]_vars

---------------------------------------------------------------------------
(* Sequences *)

SeqsUpTo(S, n) == UNION {[1 .. k -> S] : k \in 0 .. n}

RECURSIVE Concat(_)
Concat(seqs) == IF seqs = <<>> THEN <<>> ELSE Head(seqs) \o Concat(Tail(seqs))

Front(seq) == SubSeq(seq, 1, Len(seq) - 1)
Last(seq) == seq[Len(seq)]

---------------------------------------------------------------------------
(* group_phase_blocks *)

\* the phases normalise_slot produces from classify_slot's labels
Phases == {"green", "amber", "red"}

\* the sort key (s["start_dt"] is None, s["start_dt"]): slots without a
\* parsed start sort last
StartKeyLess(a, b) ==
    \/ a.start_dt # NoTime /\ b.start_dt = NoTime
    \/ a.start_dt # NoTime /\ b.start_dt # NoTime /\ a.start_dt < b.start_dt

\* sorted() is stable: a slot goes behind the slots whose key is not greater
RECURSIVE InsertByStartDt(_, _)
InsertByStartDt(sorted, s) ==
    IF sorted = <<>> THEN <<s>>
    ELSE IF StartKeyLess(s, Head(sorted)) THEN <<s>> \o sorted
    ELSE <<Head(sorted)>> \o InsertByStartDt(Tail(sorted), s)

RECURSIVE SortedByStartDt(_)
SortedByStartDt(seq) ==
    IF seq = <<>> THEN <<>>
    ELSE InsertByStartDt(SortedByStartDt(Front(seq)), Last(seq))

\* the loop over slots[1:], then blocks.append(current)
RECURSIVE GroupLoop(_, _, _)
GroupLoop(bs, current, rest) ==
    IF rest = <<>> THEN Append(bs, current)
    ELSE IF Head(rest).phase = Last(current).phase
         THEN GroupLoop(bs, Append(current, Head(rest)), Tail(rest))
         ELSE GroupLoop(Append(bs, current), <<Head(rest)>>, Tail(rest))

\* The mutant of C3: the slots are grouped in the caller's order, unsorted.
group_phase_blocks_unsorted(ss) ==
    IF ss = <<>> THEN <<>>
    ELSE GroupLoop(<<>>, <<Head(ss)>>, Tail(ss))

group_phase_blocks(ss) ==
    IF ss = <<>> THEN <<>>
    ELSE LET sorted == SortedByStartDt(ss)
         IN GroupLoop(<<>>, <<Head(sorted)>>, Tail(sorted))

BlockStarts == {NoTime} \cup (0 .. (MaxSlots - 1))
BlockSlots == [start_dt : BlockStarts, phase : Phases]

InitBlocks ==
    /\ pc = "start"
    /\ ClassifyIdle
    /\ RefreshIdle
    /\ CostIdle
    /\ LaterIdle
    /\ slots \in SeqsUpTo(BlockSlots, MaxSlots)
    /\ blocks = <<>>

\* one call group_phase_blocks(slots)
GroupPhaseBlocks ==
    /\ pc = "start"
    /\ blocks' = group_phase_blocks(slots)
    /\ pc' = "done"
    /\ UNCHANGED <<slots, classify_vars, refresh_vars, cost_vars, later_vars>>

NextBlocks == GroupPhaseBlocks

SpecBlocks == InitBlocks /\ [][NextBlocks]_vars

---------------------------------------------------------------------------
(* The timeline: quarter-hour ticks, half-hour slots *)

TickMinutes == 60 \div 4
SlotTicks == 30 \div TickMinutes
\* tick 0 is 15:00, so that the timeline crosses the 16:00 boundary
BaseMinute == 15 * 60
TickToMinute(t) == BaseMinute + t * TickMinutes

Ticks == 0 .. MaxTick

SetMin(S) == CHOOSE x \in S : \A y \in S : x <= y
SetMax(S) == CHOOSE x \in S : \A y \in S : x >= y

---------------------------------------------------------------------------
(* build_unified_dataset *)

\* a valid_from or valid_to that isoparse cannot parse (null included)
BadInstant == 0 - 2

RawKeys == {"valid_from", "valid_to", "value_inc_vat"}

\* item["valid_from"], item["valid_to"], the two isoparse calls or
\* item["value_inc_vat"] raise
RecordRaises(item) ==
    \/ "valid_from" \notin item.keys
    \/ "valid_to" \notin item.keys
    \/ item.valid_from = BadInstant
    \/ item.valid_to = BadInstant
    \/ "value_inc_vat" \notin item.keys

\* the dict appended for one item; start and end stand for _start_dt_obj
\* and _end_dt_obj and for the raw strings that denote them
UnifiedSlot(item) ==
    [start |-> item.valid_from,
     end |-> item.valid_to,
     value |-> item.value_inc_vat,
     phase |-> classify_slot(TickToMinute(item.valid_from), item.value_inc_vat)]

\* unified.sort(key=lambda s: s["_start_dt_obj"]): list.sort is stable
RECURSIVE InsertByStart(_, _)
InsertByStart(sorted, s) ==
    IF sorted = <<>> THEN <<s>>
    ELSE IF s.start < Head(sorted).start THEN <<s>> \o sorted
    ELSE <<Head(sorted)>> \o InsertByStart(Tail(sorted), s)

RECURSIVE SortedByStart(_)
SortedByStart(seq) ==
    IF seq = <<>> THEN <<>>
    ELSE InsertByStart(SortedByStart(Front(seq)), Last(seq))

\* The mutant of C9: an instant that cannot be parsed is kept as it is.
build_unified_dataset_lenient(items) ==
    IF \E i \in 1 .. Len(items) : items[i].keys # RawKeys
    THEN [raised |-> TRUE, slots |-> <<>>]
    ELSE [raised |-> FALSE,
          slots |-> SortedByStart([i \in 1 .. Len(items) |-> UnifiedSlot(items[i])])]

\* raised: an exception left the function; slots: the list returned
build_unified_dataset(items) ==
    IF \E i \in 1 .. Len(items) : RecordRaises(items[i])
    THEN [raised |-> TRUE, slots |-> <<>>]
    ELSE [raised |-> FALSE,
          slots |-> SortedByStart([i \in 1 .. Len(items) |-> UnifiedSlot(items[i])])]

---------------------------------------------------------------------------
(* normalise_slot *)

normalise_phase(p) ==
    CASE p = "Green" -> "green"
      [] p = "Amber" -> "amber"
      [] p = "Red" -> "red"
      [] OTHER -> p

normalise_slot(s) ==
    [start_dt |-> s.start, end_dt |-> s.end, value |-> s.value,
     phase |-> normalise_phase(s.phase)]

---------------------------------------------------------------------------
(* EDFCoordinator._async_update_data: the interval stage *)

\* The mutant of C10: the slot's end is taken as part of the slot.
current_index_closed(us, n) ==
    LET hits == {i \in 1 .. Len(us) : us[i].start <= n /\ n <= us[i].end}
    IN IF hits = {} THEN 0 ELSE SetMin(hits)

\* next((slot for slot in unified if start <= now < end), None): the index
\* of the first such slot, 0 for None
current_index(us, n) ==
    LET hits == {i \in 1 .. Len(us) : us[i].start <= n /\ n < us[i].end}
    IN IF hits = {} THEN 0 ELSE SetMin(hits)

select_current(us, n) ==
    IF current_index(us, n) = 0 THEN NoSlot ELSE us[current_index(us, n)]

\* the slot published as current: the selected slot normalised, or the
\* fallback made of the first slot's price and phase, without start and end
publish_current(us, cur) ==
    IF cur # NoSlot THEN normalise_slot(cur)
    ELSE normalise_slot([start |-> NoTime, end |-> NoTime,
                         value |-> us[1].value, phase |-> us[1].phase])

\* next((slot["value"] for slot in unified if start > now), None)
select_next_price(us, n) ==
    LET later == {i \in 1 .. Len(us) : us[i].start > n}
    IN IF later = {} THEN NoPrice ELSE us[SetMin(later)].value

\* the records of the EDF API: half-hour unit rates on the half-hour grid,
\* in any order, possibly repeated, possibly with gaps
GridStarts == {t \in Ticks : t % SlotTicks = 0 /\ t + SlotTicks <= MaxTick}
RawPrices == {0 - 1, 0, MaxPrice}
GoodRecords ==
    {[keys |-> RawKeys, valid_from |-> t, valid_to |-> t + SlotTicks, value_inc_vat |-> p]
        : t \in GridStarts, p \in RawPrices}
\* records with one key absent or one instant unparseable
MalformedRecords ==
    {[keys |-> RawKeys \ {k}, valid_from |-> 0, valid_to |-> SlotTicks, value_inc_vat |-> MaxPrice]
        : k \in RawKeys}
    \cup {[keys |-> RawKeys, valid_from |-> BadInstant, valid_to |-> SlotTicks, value_inc_vat |-> MaxPrice],
          [keys |-> RawKeys, valid_from |-> 0, valid_to |-> BadInstant, value_inc_vat |-> MaxPrice]}
RawRecords == GoodRecords \cup MalformedRecords

InitRefresh ==
    /\ pc = "start"
    /\ ClassifyIdle
    /\ BlocksIdle
    /\ CostIdle
    /\ LaterIdle
    /\ raw_items \in SeqsUpTo(RawRecords, MaxSlots)
    /\ now \in Ticks
    /\ unified = NotBuilt
    /\ current_raw = NoSlot
    /\ current_slot = NoNormSlot
    /\ current_price = NoPrice
    /\ next_price = NoPrice

\* the interval stage of one refresh: the unified dataset, the current slot
\* and the next price; an empty answer or an exception ends in the error result
IntervalStage ==
    /\ pc = "start"
    /\ LET built == IF raw_items = <<>> THEN NotBuilt ELSE build_unified_dataset(raw_items)
           failed == raw_items = <<>> \/ built.raised
           cur == select_current(built.slots, now)
       IN /\ unified' = built
          /\ current_raw' = IF failed THEN NoSlot ELSE cur
          /\ current_slot' = IF failed THEN NoNormSlot ELSE publish_current(built.slots, cur)
          /\ current_price' = IF failed THEN NoPrice ELSE publish_current(built.slots, cur).value
          /\ next_price' = IF failed THEN NoPrice ELSE select_next_price(built.slots, now)
          /\ pc' = IF failed THEN "failed" ELSE "done"
    /\ UNCHANGED <<raw_items, now, classify_vars, block_vars, cost_vars, later_vars>>

NextRefresh == IntervalStage

SpecRefresh == InitRefresh /\ [][NextRefresh]_vars

---------------------------------------------------------------------------
(* Exact arithmetic for energy and money *)

RECURSIVE Gcd(_, _)
Gcd(a, b) == IF b = 0 THEN a ELSE Gcd(b, a % b)

RECURSIVE LcmUpTo(_)
LcmUpTo(n) == IF n <= 1 THEN 1 ELSE (LcmUpTo(n - 1) * n) \div Gcd(LcmUpTo(n - 1), n)

\* A delta lasts 1 .. MaxTick ticks, so every share overlap / duration of an
\* integer kWh is a whole number of 1 / KwhDen kWh.
KwhDen == LcmUpTo(MaxTick)

\* cost_gbp = kwh * (price / 100.0): a whole number of 1 / CostDen pounds
CostDen == KwhDen * 100

Max2(a, b) == IF a >= b THEN a ELSE b
Min2(a, b) == IF a <= b THEN a ELSE b

RECURSIVE SeqSum(_)
SeqSum(seq) == IF seq = <<>> THEN 0 ELSE Head(seq) + SeqSum(Tail(seq))

\* the integer nearest to num / den (den > 0), a tie going to the even one
RoundHalfEven(num, den) ==
    LET f == num \div den
        r == num - f * den
    IN IF 2 * r < den THEN f
       ELSE IF 2 * r > den THEN f + 1
       ELSE IF f % 2 = 0 THEN f ELSE f + 1

\* round(num / den, 4), in units of 10^-4
round4(num, den) == RoundHalfEven(num * 10000, den)

---------------------------------------------------------------------------
(* CostCoordinator._compute_deltas *)

NoReading == [ts |-> NoTime, value |-> 0]

\* The mutant of C4: a negative difference is appended like any other.
RECURSIVE deltas_loop_keeping_negative(_, _, _, _, _)
deltas_loop_keeping_negative(rest, prev_state, acc, ps, pe) ==
    IF rest = <<>> THEN acc
    ELSE LET state == Head(rest)
             start == Max2(prev_state.ts, ps)
             end == Min2(state.ts, pe)
         IN IF prev_state = NoReading
            THEN deltas_loop_keeping_negative(Tail(rest), state, acc, ps, pe)
            ELSE IF state.ts <= prev_state.ts
            THEN deltas_loop_keeping_negative(Tail(rest), prev_state, acc, ps, pe)
            ELSE IF end <= start
            THEN deltas_loop_keeping_negative(Tail(rest), state, acc, ps, pe)
            ELSE deltas_loop_keeping_negative(Tail(rest), state,
                    Append(acc, [start |-> start, end |-> end,
                                 kwh |-> state.value - prev_state.value]), ps, pe)

\* the loop over states: prev_state is the baseline, acc the deltas so far
RECURSIVE deltas_loop(_, _, _, _, _)
deltas_loop(rest, prev_state, acc, ps, pe) ==
    IF rest = <<>> THEN acc
    ELSE LET state == Head(rest)
             start == Max2(prev_state.ts, ps)
             end == Min2(state.ts, pe)
         IN IF prev_state = NoReading
            THEN deltas_loop(Tail(rest), state, acc, ps, pe)
            ELSE IF state.ts <= prev_state.ts
            THEN deltas_loop(Tail(rest), prev_state, acc, ps, pe)
            ELSE IF end <= start
            THEN deltas_loop(Tail(rest), state, acc, ps, pe)
            ELSE IF state.value - prev_state.value < 0
            THEN deltas_loop(Tail(rest), state, acc, ps, pe)
            ELSE deltas_loop(Tail(rest), state,
                    Append(acc, [start |-> start, end |-> end,
                                 kwh |-> state.value - prev_state.value]), ps, pe)

compute_deltas(sts, ps, pe) ==
    IF Len(sts) < 2 THEN <<>> ELSE deltas_loop(sts, NoReading, <<>>, ps, pe)

---------------------------------------------------------------------------
(* CostCoordinator._align_deltas_to_slots *)

\* (overlap_end - overlap_start).total_seconds(), in ticks
overlap(slot, d) == Min2(slot.end, d.end) - Max2(slot.start, d.start)

\* d_kwh * frac with frac = overlap / (d_end - d_start), in 1 / KwhDen kWh
delta_share(slot, d) == d.kwh * overlap(slot, d) * (KwhDen \div (d.end - d.start))

\* slot_kwh: the inner loop over the deltas
RECURSIVE slot_kwh(_, _)
slot_kwh(slot, ds) ==
    IF ds = <<>> THEN 0
    ELSE (IF overlap(slot, Head(ds)) <= 0 THEN 0 ELSE delta_share(slot, Head(ds)))
         + slot_kwh(slot, Tail(ds))

SlotCost(slot, kwh) ==
    [start |-> slot.start, end |-> slot.end, kwh |-> kwh,
     price_p_per_kwh |-> slot.price_p_per_kwh,
     cost_gbp |-> kwh * slot.price_p_per_kwh,
     phase |-> slot.phase]

\* the outer loop over the slots
RECURSIVE align_deltas_to_slots(_, _)
align_deltas_to_slots(ss, ds) ==
    IF ss = <<>> THEN <<>>
    ELSE LET slot == Head(ss)
             rest == align_deltas_to_slots(Tail(ss), ds)
         IN IF slot.end - slot.start <= 0 THEN rest
            ELSE IF slot_kwh(slot, ds) <= 0 THEN rest
            ELSE <<SlotCost(slot, slot_kwh(slot, ds))>> \o rest

---------------------------------------------------------------------------
(* CostCoordinator._compute_period_cost *)

\* the slots kept by the first loop: clamped to end_override, empty ones and
\* ones without a price left out (value 0 is falsy, so "value or price" is
\* None for a slot priced 0)
NormSlot(s, override) ==
    [start |-> s.start_dt,
     end |-> IF override # NoTime /\ s.end_dt > override THEN override ELSE s.end_dt,
     price_p_per_kwh |-> s.value,
     phase |-> s.phase]

KeepsSlot(s, override) ==
    /\ s.start_dt # NoTime
    /\ s.end_dt # NoTime
    /\ NormSlot(s, override).end > s.start_dt
    /\ s.value # 0
    /\ s.value # NoPrice

normalise_cost_slots(ss, override) ==
    LET kept == SelectSeq(ss, LAMBDA s : KeepsSlot(s, override))
    IN SortedByStart([i \in 1 .. Len(kept) |-> NormSlot(kept[i], override)])

\* sc.phase or "Unknown"
PhaseBucket(sc) == IF sc.phase = "" THEN "Unknown" ELSE sc.phase

\* The mutant of C2 on the grouping: a slot without a phase is left out of per_phase.
phase_members_dropping_unknown(scs, b) ==
    SelectSeq(scs, LAMBDA sc : sc.phase # "" /\ sc.phase = b)

\* the slot costs added to per_phase[b]
phase_members(scs, b) == SelectSeq(scs, LAMBDA sc : PhaseBucket(sc) = b)

KwhOf(scs) == SeqSum([i \in 1 .. Len(scs) |-> scs[i].kwh])
CostOf(scs) == SeqSum([i \in 1 .. Len(scs) |-> scs[i].cost_gbp])

\* the dict returned; kwh and cost are round(.., 4), in units of 10^-4
Summary(scs) ==
    [is_none |-> FALSE,
     total_kwh |-> round4(KwhOf(scs), KwhDen),
     total_cost |-> round4(CostOf(scs), CostDen),
     per_phase |-> [b \in {PhaseBucket(scs[i]) : i \in 1 .. Len(scs)} |->
                       [kwh |-> round4(KwhOf(phase_members(scs, b)), KwhDen),
                        cost |-> round4(CostOf(phase_members(scs, b)), CostDen)]],
     per_slot |-> [i \in 1 .. Len(scs) |->
                       [start |-> scs[i].start, end |-> scs[i].end,
                        kwh |-> round4(scs[i].kwh, KwhDen),
                        price_p_per_kwh |-> scs[i].price_p_per_kwh,
                        cost_gbp |-> round4(scs[i].cost_gbp, CostDen),
                        phase |-> scs[i].phase]]]

\* one call: every intermediate value and the summary returned
compute_period_cost(ss, override, entity_states) ==
    LET ns == normalise_cost_slots(ss, override)
        ps == IF ns = <<>> THEN NoTime ELSE ns[1].start
        pe == IF ns = <<>> THEN NoTime ELSE Last(ns).end
        ds == IF ns = <<>> \/ entity_states = <<>> THEN <<>>
              ELSE compute_deltas(entity_states, ps, pe)
        scs == IF ds = <<>> THEN <<>> ELSE align_deltas_to_slots(ns, ds)
    IN [norm_slots |-> ns, period_start |-> ps, period_end |-> pe,
        deltas |-> ds, slot_costs |-> scs,
        summary |-> IF ns = <<>> \/ entity_states = <<>> \/ ds = <<>>
                    THEN NoSummary ELSE Summary(scs)]

---------------------------------------------------------------------------
(* The inputs of the cost coordinator *)

RECURSIVE SetToSortedSeq(_)
SetToSortedSeq(S) ==
    IF S = {} THEN <<>> ELSE <<SetMin(S)>> \o SetToSortedSeq(S \ {SetMin(S)})

\* the states of the import sensor recorded at the instants T, oldest first,
\* the state at t reading v[t]
Readings(T, v) ==
    LET at == SetToSortedSeq(T)
    IN [i \in 1 .. Len(at) |-> [ts |-> at[i], value |-> v[at[i]]]]

MeterValues == 0 .. MaxVal

InitDeltas ==
    /\ pc = "start"
    /\ ClassifyIdle
    /\ BlocksIdle
    /\ RefreshIdle
    /\ LaterIdle
    /\ \E T \in SUBSET Ticks :
          /\ Cardinality(T) <= MaxReadings
          /\ \E v \in [T -> MeterValues] : states = Readings(T, v)
    /\ period_start \in {0, SlotTicks}
    /\ period_end \in {MaxTick - SlotTicks, MaxTick}
    /\ cost_slots = <<>>
    /\ end_override = NoTime
    /\ norm_slots = <<>>
    /\ deltas = <<>>
    /\ slot_costs = <<>>
    /\ summary = NoSummary

\* one call _compute_deltas(states, period_start, period_end)
ComputeDeltas ==
    /\ pc = "start"
    /\ deltas' = compute_deltas(states, period_start, period_end)
    /\ pc' = "done"
    /\ UNCHANGED <<cost_slots, end_override, states, period_start, period_end,
                   norm_slots, slot_costs, summary>>
    /\ UNCHANGED <<classify_vars, block_vars, refresh_vars, later_vars>>

NextDeltas == ComputeDeltas

SpecDeltas == InitDeltas /\ [][NextDeltas]_vars

\* half-hour slots starting at any tick, sorted by start as _compute_period_cost
\* passes them on; two of them may overlap or coincide
AlignSlots ==
    {[start |-> t, end |-> t + SlotTicks, price_p_per_kwh |-> MaxPrice, phase |-> "green"]
        : t \in 0 .. (MaxTick - SlotTicks)}

\* deltas as _compute_deltas returns them: in time order, one ending before
\* or when the next starts, none negative
AlignDeltas ==
    {[start |-> a, end |-> b, kwh |-> k] : a \in Ticks, b \in Ticks, k \in {1, MaxKwh}}

NonDecreasingStarts(ss) == \A i \in 1 .. (Len(ss) - 1) : ss[i].start <= ss[i + 1].start

InTimeOrder(ds) ==
    /\ \A i \in 1 .. Len(ds) : ds[i].start < ds[i].end
    /\ \A i \in 1 .. (Len(ds) - 1) : ds[i].end <= ds[i + 1].start

InitAlign ==
    /\ pc = "start"
    /\ ClassifyIdle
    /\ BlocksIdle
    /\ RefreshIdle
    /\ LaterIdle
    /\ norm_slots \in {ss \in SeqsUpTo(AlignSlots, MaxSlots) : NonDecreasingStarts(ss)}
    /\ deltas \in {ds \in SeqsUpTo(AlignDeltas, MaxDeltas) : InTimeOrder(ds)}
    /\ cost_slots = <<>>
    /\ end_override = NoTime
    /\ states = <<>>
    /\ period_start = NoTime
    /\ period_end = NoTime
    /\ slot_costs = <<>>
    /\ summary = NoSummary

\* one call _align_deltas_to_slots(norm_slots, deltas)
AlignDeltasToSlots ==
    /\ pc = "start"
    /\ slot_costs' = align_deltas_to_slots(norm_slots, deltas)
    /\ pc' = "done"
    /\ UNCHANGED <<cost_slots, end_override, states, period_start, period_end,
                   norm_slots, deltas, summary>>
    /\ UNCHANGED <<classify_vars, block_vars, refresh_vars, later_vars>>

NextAlign == AlignDeltasToSlots

SpecAlign == InitAlign /\ [][NextAlign]_vars

\* the price and phase of a published slot: a price <= 0 is green, a positive
\* price green or red by the time of day; "" stands for a slot without a phase
CostSlotKinds ==
    {[value |-> p, phase |-> "green"] : p \in RawPrices}
    \cup {[value |-> MaxPrice, phase |-> ph] : ph \in {"red", ""}}

\* a meter ticking up one unit every MeterStep ticks, and one that falls back
\* to zero every MeterStep ticks
MeterStep == SlotTicks + 1
MeterProfiles ==
    {[t \in Ticks |-> t \div MeterStep], [t \in Ticks |-> (t + 1) % MeterStep]}

InitCost ==
    /\ pc = "start"
    /\ ClassifyIdle
    /\ BlocksIdle
    /\ RefreshIdle
    /\ LaterIdle
    \* today_24_hours or yesterday_24_hours: slots of the half-hour grid in
    \* start order, some possibly absent
    /\ \E G \in SUBSET GridStarts :
          /\ Cardinality(G) <= MaxSlots
          /\ \E k \in [G -> CostSlotKinds] :
                cost_slots = [i \in 1 .. Cardinality(G) |->
                    [start_dt |-> SetToSortedSeq(G)[i],
                     end_dt |-> SetToSortedSeq(G)[i] + SlotTicks,
                     value |-> k[SetToSortedSeq(G)[i]].value,
                     phase |-> k[SetToSortedSeq(G)[i]].phase]]
    /\ end_override \in {NoTime, MaxTick \div 2}
    /\ \E T \in SUBSET Ticks :
          /\ Cardinality(T) <= MaxReadings
          /\ \E v \in MeterProfiles : states = Readings(T, v)
    /\ period_start = NoTime
    /\ period_end = NoTime
    /\ norm_slots = <<>>
    /\ deltas = <<>>
    /\ slot_costs = <<>>
    /\ summary = NoSummary

\* one call _compute_period_cost(cost_slots, label, end_override), the
\* recorder answering with states
ComputePeriodCost ==
    /\ pc = "start"
    /\ LET run == compute_period_cost(cost_slots, end_override, states)
       IN /\ norm_slots' = run.norm_slots
          /\ period_start' = run.period_start
          /\ period_end' = run.period_end
          /\ deltas' = run.deltas
          /\ slot_costs' = run.slot_costs
          /\ summary' = run.summary
    /\ pc' = "done"
    /\ UNCHANGED <<cost_slots, end_override, states>>
    /\ UNCHANGED <<classify_vars, block_vars, refresh_vars, later_vars>>

NextCost == ComputePeriodCost

SpecCost == InitCost /\ [][NextCost]_vars

---------------------------------------------------------------------------
(* build_forecasts *)

\* next_24_hours holds at most this many slots
ForecastSlots == 48

\* the calendar day an instant falls on: .date()
DateOf(t) == TickToMinute(t) \div MinutesPerDay

\* seq[:k]
Take(seq, k) == SubSeq(seq, 1, Min2(k, Len(seq)))

\* The mutant of C11: a slot starting at now is not part of the future.
build_forecasts_after_now(us, n) ==
    [next_24_hours |-> Take(SelectSeq(us, LAMBDA s : s.start > n), ForecastSlots),
     today_24_hours |-> SelectSeq(us, LAMBDA s : DateOf(s.start) = DateOf(n)),
     tomorrow_24_hours |-> SelectSeq(us, LAMBDA s : DateOf(s.start) = DateOf(n) + 1),
     yesterday_24_hours |-> SelectSeq(us, LAMBDA s : DateOf(s.start) = DateOf(n) - 1)]

build_forecasts(us, n) ==
    [next_24_hours |-> Take(SelectSeq(us, LAMBDA s : s.start >= n), ForecastSlots),
     today_24_hours |-> SelectSeq(us, LAMBDA s : DateOf(s.start) = DateOf(n)),
     tomorrow_24_hours |-> SelectSeq(us, LAMBDA s : DateOf(s.start) = DateOf(n) + 1),
     yesterday_24_hours |-> SelectSeq(us, LAMBDA s : DateOf(s.start) = DateOf(n) - 1)]

\* a sorted timeline of count half-hour slots, the first at tick first, one
\* starting every stride ticks, with prices that change from slot to slot
TimelinePrice(i) == (i % (2 * MaxPrice + 1)) - MaxPrice
Timeline(first, count, stride) ==
    [i \in 1 .. count |->
        UnifiedSlot([keys |-> RawKeys,
                     valid_from |-> first + (i - 1) * stride,
                     valid_to |-> first + (i - 1) * stride + SlotTicks,
                     value_inc_vat |-> TimelinePrice(i)])]

\* the timelines hold up to MaxSlots slots more than next_24_hours can
MaxTimeline == ForecastSlots + MaxSlots
ForecastInstants == 0 .. (SlotTicks * MaxTimeline + 1)

InitForecast ==
    /\ pc = "start"
    /\ ClassifyIdle
    /\ BlocksIdle
    /\ CostIdle
    /\ raw_items = <<>>
    /\ HeartbeatIdle
    /\ PipelineIdle
    /\ ScheduleIdle
    /\ ThirdIdle
    /\ now \in ForecastInstants
    /\ \E first \in 0 .. SlotTicks, count \in 0 .. MaxTimeline,
          stride \in {SlotTicks, 2 * SlotTicks} :
          unified = [raised |-> FALSE, slots |-> Timeline(first, count, stride)]
    /\ current_raw = NoSlot
    /\ current_slot = NoNormSlot
    /\ current_price = NoPrice
    /\ next_price = NoPrice
    /\ forecasts = NoForecasts

\* one call build_forecasts(unified, now)
BuildForecasts ==
    /\ pc = "start"
    /\ forecasts' = build_forecasts(unified.slots, now)
    /\ pc' = "done"
    /\ UNCHANGED <<classify_vars, block_vars, refresh_vars, cost_vars, heartbeat_vars, pipeline_vars,
                    schedule_vars, third_vars>>

NextForecast == BuildForecasts

SpecForecast == InitForecast /\ [][NextForecast]_vars

---------------------------------------------------------------------------
(* find_current_block, format_phase_block and the block summaries *)

format_phase_block(block) ==
    IF block = <<>> THEN NoBlockSummary
    ELSE [phase |-> block[1].phase, start_dt |-> block[1].start_dt,
          end_dt |-> Last(block).end_dt, value |-> block[1].value]

\* the slots before idx, going backwards, as long as they have the phase
RECURSIVE ExtendBackwards(_, _, _)
ExtendBackwards(ss, idx, ph) ==
    IF idx = 1 \/ ss[idx - 1].phase # ph THEN <<>>
    ELSE Append(ExtendBackwards(ss, idx - 1, ph), ss[idx - 1])

\* the slots after idx, going forwards, as long as they have the phase
RECURSIVE ExtendForwards(_, _, _)
ExtendForwards(ss, idx, ph) ==
    IF idx = Len(ss) \/ ss[idx + 1].phase # ph THEN <<>>
    ELSE <<ss[idx + 1]>> \o ExtendForwards(ss, idx + 1, ph)

\* The mutant of C22: the block is the located slot alone, not expanded.
find_current_block_not_expanded(all_slots, cur) ==
    IF cur = NoNormSlot \/ cur.start_dt = NoTime THEN <<>>
    ELSE LET sorted == SortedByStartDt(SelectSeq(all_slots, LAMBDA s : s.start_dt # NoTime))
             hits == {i \in 1 .. Len(sorted) : sorted[i].start_dt = cur.start_dt}
         IN IF hits = {} THEN <<>> ELSE <<sorted[SetMin(hits)]>>

\* the block holding the current slot, <<>> for None
find_current_block(all_slots, cur) ==
    IF cur = NoNormSlot \/ cur.start_dt = NoTime THEN <<>>
    ELSE LET sorted == SortedByStartDt(SelectSeq(all_slots, LAMBDA s : s.start_dt # NoTime))
             hits == {i \in 1 .. Len(sorted) : sorted[i].start_dt = cur.start_dt}
         IN IF hits = {} THEN <<>>
            ELSE ExtendBackwards(sorted, SetMin(hits), cur.phase)
                 \o <<sorted[SetMin(hits)]>>
                 \o ExtendForwards(sorted, SetMin(hits), cur.phase)

\* blocks[blocks.index(current_block) + 1], <<>> for None
find_next_block(bs, block) ==
    LET hits == {i \in 1 .. Len(bs) : bs[i] = block}
    IN IF block = <<>> \/ bs = <<>> \/ hits = {} THEN <<>>
       ELSE IF SetMin(hits) + 1 <= Len(bs) THEN bs[SetMin(hits) + 1] ELSE <<>>

NormalisedSlots(ss) == [i \in 1 .. Len(ss) |-> normalise_slot(ss[i])]

---------------------------------------------------------------------------
(* EDFCoordinator._async_update_data: one whole refresh *)

HEARTBEAT_PRIORITY ==
    <<"api_error", "no_data", "parsing_error", "unexpected_format", "rate_limited",
      "scheduler_error", "import_sensor_missing", "import_sensor_unavailable",
      "metadata_error", "standing_charge_error", "standing_charge_missing",
      "stale", "partial", "healthy">>

\* flags with the flags of the set raised true
Raise(flags, raised) == [f \in FlagNames |-> flags[f] \/ f \in raised]

\* The mutant of C14: the least severe raised flag is taken.
primary_state_least_severe(flags) ==
    LET hits == {i \in 1 .. Len(HEARTBEAT_PRIORITY) :
                    HEARTBEAT_PRIORITY[i] \in FlagNames /\ flags[HEARTBEAT_PRIORITY[i]]}
    IN IF hits = {} THEN "healthy" ELSE HEARTBEAT_PRIORITY[SetMax(hits)]

\* the first state of HEARTBEAT_PRIORITY whose flag is raised, else "healthy"
primary_state(flags) ==
    LET hits == {i \in 1 .. Len(HEARTBEAT_PRIORITY) :
                    HEARTBEAT_PRIORITY[i] \in FlagNames /\ flags[HEARTBEAT_PRIORITY[i]]}
    IN IF hits = {} THEN "healthy" ELSE HEARTBEAT_PRIORITY[SetMin(hits)]

\* the keys both returned dicts hold, and those only one of them holds
CommonKeys ==
    {"current_price", "next_price", "current_slot", "next_24_hours", "today_24_hours",
     "tomorrow_24_hours", "yesterday_24_hours", "all_slots_sorted",
     "current_block_summary", "next_block_summary", "api_latency_ms", "last_updated",
     "coordinator_status", "tariff_metadata"} \cup FlagNames
SuccessKeys ==
    CommonKeys \cup {"debug_counter", "standing_charge_inc_vat", "standing_charge_exc_vat",
                     "standing_charge_valid_from", "standing_charge_valid_to",
                     "standing_charge_raw"}
FailureKeys == CommonKeys \cup {"scan_interval_seconds"}

\* the flags after the metadata and standing-charge stages
StageFlags(meta_ok, standing) ==
    Raise(NoFlags,
          (IF meta_ok THEN {} ELSE {"metadata_error"})
          \cup (IF standing = "error" THEN {"standing_charge_error", "standing_charge_missing"}
                ELSE IF standing = "missing" THEN {"standing_charge_missing"} ELSE {}))

\* what the checks before build_unified_dataset raise on the answer
AnswerFlags(answer) ==
    IF answer.kind = "not_dicts" THEN {"unexpected_format"}
    ELSE IF answer.kind = "list" /\ answer.items = <<>> THEN {"no_data"}
    ELSE {}

\* an exception leaves the try block of the interval stage
IntervalStageRaises(answer) ==
    \/ answer.kind = "raises"
    \/ AnswerFlags(answer) # {}
    \/ build_unified_dataset(answer.items).raised

\* the dict returned from the except branch
FailureResult(meta_ok, standing, answer) ==
    [keys |-> FailureKeys,
     flags |-> Raise(StageFlags(meta_ok, standing), AnswerFlags(answer) \cup {"api_error"}),
     coordinator_status |-> "api_error", last_updated |-> NoTime,
     current_price |-> NoPrice, next_price |-> NoPrice, current_slot |-> NoNormSlot,
     next_24_hours |-> <<>>, today_24_hours |-> <<>>, tomorrow_24_hours |-> <<>>,
     yesterday_24_hours |-> <<>>, all_slots_sorted |-> <<>>,
     current_block_summary |-> NoBlockSummary, next_block_summary |-> NoBlockSummary,
     tariff_metadata |-> IF meta_ok THEN "metadata" ELSE "empty",
     standing_charge_inc_vat |-> NoPrice]

\* the stale check against self.data["last_updated"], then partial
HeartbeatFlags(flags, previous, n, scan) ==
    LET stale == previous.keys # {} /\ previous.last_updated # NoTime
                 /\ n - previous.last_updated > scan * 2
    IN Raise(flags, (IF stale THEN {"stale"} ELSE {})
                    \cup (IF flags["metadata_error"] THEN {"partial"} ELSE {}))

\* the dict returned at the end of the try block
SuccessResult(meta_ok, standing, answer, previous, n, scan) ==
    LET us == build_unified_dataset(answer.items).slots
        fc == build_forecasts(us, n)
        cur == publish_current(us, select_current(us, n))
        all_slots == NormalisedSlots(us)
        cur_block == find_current_block(all_slots, cur)
        nxt_block == find_next_block(group_phase_blocks(all_slots), cur_block)
        flags == HeartbeatFlags(StageFlags(meta_ok, standing), previous, n, scan)
    IN [keys |-> SuccessKeys,
        flags |-> flags,
        coordinator_status |-> primary_state(flags), last_updated |-> n,
        current_price |-> cur.value, next_price |-> select_next_price(us, n),
        current_slot |-> cur,
        next_24_hours |-> NormalisedSlots(fc.next_24_hours),
        today_24_hours |-> NormalisedSlots(fc.today_24_hours),
        tomorrow_24_hours |-> NormalisedSlots(fc.tomorrow_24_hours),
        yesterday_24_hours |-> NormalisedSlots(fc.yesterday_24_hours),
        all_slots_sorted |-> all_slots,
        current_block_summary |-> format_phase_block(cur_block),
        next_block_summary |-> format_phase_block(nxt_block),
        tariff_metadata |-> IF meta_ok THEN "metadata" ELSE "empty",
        standing_charge_inc_vat |-> IF standing = "ok" THEN MaxPrice ELSE NoPrice]

\* what the refresh returns, never raising: the except branch catches
\* every exception of the interval stage
async_update_data(meta_ok, standing, answer, previous, n, scan) ==
    IF IntervalStageRaises(answer)
    THEN FailureResult(meta_ok, standing, answer)
    ELSE SuccessResult(meta_ok, standing, answer, previous, n, scan)

\* the refreshes of one run of the integration: the scan interval in ticks,
\* the longest time between two refreshes, the last instant modelled
ScanInterval == 1
MaxGap == 2 * ScanInterval + 1
MaxClock == 4

\* what fetch_all_pages(api_url) does: raises (network error, HTTP error
\* status, timeout), or returns a list holding something that is no dict,
\* or returns a list of records
AnswerPrices == {0 - 1, MaxPrice}
AnswerRecords ==
    {[keys |-> RawKeys, valid_from |-> t, valid_to |-> t + SlotTicks, value_inc_vat |-> p]
        : t \in GridStarts, p \in AnswerPrices}
\* the lists of at most two records, each half-hour at most once, in
\* time order
AnswerLists ==
    {l \in SeqsUpTo(AnswerRecords, 2) :
        \A i \in 1 .. Len(l) - 1 : l[i].valid_from < l[i + 1].valid_from}
Answers ==
    {[kind |-> "raises", items |-> <<>>], [kind |-> "not_dicts", items |-> <<>>]}
    \cup {[kind |-> "list", items |-> l] : l \in AnswerLists}
    \cup {[kind |-> "list", items |-> <<r>>] : r \in MalformedRecords}
StandingOutcomes == {"ok", "missing", "error"}

InitHeartbeat ==
    /\ pc = "start"
    /\ ClassifyIdle
    /\ BlocksIdle
    /\ RefreshIdle
    /\ CostIdle
    /\ ForecastIdle
    /\ HeartbeatIdle
    /\ PipelineIdle
    /\ ScheduleIdle
    /\ ThirdIdle

\* one refresh: _async_update_data runs to its return and the coordinator
\* stores the dict as self.data
Refresh ==
    /\ \E gap \in 1 .. MaxGap, meta_ok \in BOOLEAN, standing \in StandingOutcomes,
          answer \in Answers :
          /\ clock + gap <= MaxClock
          /\ clock' = clock + gap
          /\ data' = async_update_data(meta_ok, standing, answer, data, clock + gap, ScanInterval)
          /\ inputs' = [meta_ok |-> meta_ok, standing |-> standing, answer |-> answer]
          /\ previous_updated' = data.last_updated
          /\ last_success' = IF IntervalStageRaises(answer) THEN last_success ELSE clock + gap
          /\ previous_success' = last_success
    /\ pc' = "done"
    /\ UNCHANGED <<classify_vars, block_vars, refresh_vars, cost_vars, forecast_vars, pipeline_vars,
                    schedule_vars, third_vars>>

NextHeartbeat == Refresh

SpecHeartbeat == InitHeartbeat /\ [][NextHeartbeat]_vars

---------------------------------------------------------------------------
(* CostCoordinator._async_update_data and the refreshes of both coordinators *)

\* the refreshes under study run a quarter of an hour after the midnight
\* that follows the base instant
MidnightTick == (MinutesPerDay - BaseMinute) \div TickMinutes
PipelineNow == MidnightTick + 1

\* the refreshes each coordinator starts
MaxCycles == 2

\* the last half-hour of yesterday and the first of today
PipelineRecord(t) ==
    [keys |-> RawKeys, valid_from |-> t, valid_to |-> t + SlotTicks, value_inc_vat |-> MaxPrice]
PipelineAnswers ==
    {[kind |-> "raises", items |-> <<>>],
     [kind |-> "list", items |-> <<>>],
     [kind |-> "list", items |-> <<PipelineRecord(MidnightTick)>>],
     [kind |-> "list",
      items |-> <<PipelineRecord(MidnightTick - SlotTicks), PipelineRecord(MidnightTick)>>]}

\* what the recorder does when asked for the states of the import sensor
\* between ps and pe: raises, or answers with no state, or with a meter
\* that reads one unit more every tick
HistoryOutcomes(ps, pe) ==
    {[raises |-> TRUE, states |-> <<>>],
     [raises |-> FALSE, states |-> <<>>],
     [raises |-> FALSE,
      states |-> Readings({t \in ps .. pe : TRUE},
                          [t \in ps .. pe |-> t - ps])]}

\* the keys of the dict returned early and of the dict returned at the end
EarlyCostKeys == {"yesterday", "today", "import_sensor"}
CostKeys ==
    EarlyCostKeys
    \cup {"standing_charge_inc_vat", "standing_charge_exc_vat", "standing_charge_valid_from",
          "standing_charge_valid_to", "coordinator_status", "last_updated"}
    \cup CostFlagNames

EarlyCostResult == [NoCostData EXCEPT !.keys = EarlyCostKeys]

\* the if/elif chain over the flags
cost_primary_state(flags) ==
    IF flags["error"] THEN "error"
    ELSE IF flags["history_missing"] THEN "history_missing"
    ELSE IF flags["no_deltas"] THEN "no_deltas"
    ELSE IF flags["partial"] THEN "partial"
    ELSE "healthy"

\* the dict returned at the end; only "error" is ever set
CostResult(read, yesterday, today) ==
    LET flags == [f \in CostFlagNames |-> f = "error" /\ (yesterday.raised \/ today.raised)]
    IN [keys |-> CostKeys, yesterday |-> yesterday, today |-> today, flags |-> flags,
        coordinator_status |-> cost_primary_state(flags),
        standing_charge_inc_vat |-> read.standing_charge_inc_vat]

\* _compute_period_cost reaches the recorder call: some slot is kept
AwaitsHistory(ss, override) == normalise_cost_slots(ss, override) # <<>>

\* _compute_period_cost from the recorder's answer on; published is
\* self._edf_coordinator.data as it is when the call resumes
PeriodResult(ss, override, outcome, read, published) ==
    IF outcome.raises THEN [NoPeriod EXCEPT !.raised = TRUE]
    ELSE LET run == compute_period_cost(ss, override, outcome.states)
         IN IF run.summary.is_none THEN NoPeriod
            ELSE [summary |-> run.summary, raised |-> FALSE,
                  standing_charge_inc_vat |-> published.data.standing_charge_inc_vat,
                  windows_cycle |-> read.cycle, standing_cycle |-> published.cycle]

PeriodStart(ss, override) == normalise_cost_slots(ss, override)[1].start
PeriodEnd(ss, override) == Last(normalise_cost_slots(ss, override)).end

InitPipeline ==
    /\ pc = "start"
    /\ ClassifyIdle
    /\ BlocksIdle
    /\ RefreshIdle
    /\ CostIdle
    /\ ForecastIdle
    /\ HeartbeatIdle
    /\ ScheduleIdle
    /\ ThirdIdle
    /\ edf_pc = "idle"
    /\ edf_cycle = 0
    /\ edf_stage = [meta_ok |-> TRUE, standing |-> "ok"]
    /\ edf_data = [cycle |-> 0, data |-> NoData]
    /\ import_sensor \in BOOLEAN
    /\ cost_pc = "idle"
    /\ cost_cycle = 0
    /\ cost_read = NoCostRead
    /\ cost_yesterday = NoPeriod
    /\ cost_data = NoCostData

PipelineOthersUnchanged ==
    UNCHANGED <<pc, classify_vars, block_vars, refresh_vars, cost_vars, forecast_vars,
                heartbeat_vars, schedule_vars, third_vars, import_sensor>>

\* EDFCoordinator.async_refresh is called and _async_update_data runs up to
\* the await of the metadata fetch
EdfStart ==
    /\ edf_pc = "idle"
    /\ edf_cycle < MaxCycles
    /\ edf_cycle' = edf_cycle + 1
    /\ edf_pc' = "metadata"
    /\ UNCHANGED <<edf_stage, edf_data, cost_pc, cost_cycle, cost_read, cost_yesterday, cost_data>>
    /\ PipelineOthersUnchanged

\* the metadata fetch returns or raises; on to the await in
\* async_fetch_standing_charges
EdfMetadata ==
    /\ edf_pc = "metadata"
    /\ \E meta_ok \in BOOLEAN : edf_stage' = [edf_stage EXCEPT !.meta_ok = meta_ok]
    /\ edf_pc' = "standing"
    /\ UNCHANGED <<edf_cycle, edf_data, cost_pc, cost_cycle, cost_read, cost_yesterday, cost_data>>
    /\ PipelineOthersUnchanged

\* the standing-charge fetch ends; on to the await of the unit-rate fetch
EdfStanding ==
    /\ edf_pc = "standing"
    /\ \E standing \in StandingOutcomes : edf_stage' = [edf_stage EXCEPT !.standing = standing]
    /\ edf_pc' = "interval"
    /\ UNCHANGED <<edf_cycle, edf_data, cost_pc, cost_cycle, cost_read, cost_yesterday, cost_data>>
    /\ PipelineOthersUnchanged

\* the unit-rate fetch ends, the rest of _async_update_data runs without
\* suspending and the dict returned becomes self.data
EdfInterval ==
    /\ edf_pc = "interval"
    /\ \E answer \in PipelineAnswers :
          edf_data' = [cycle |-> edf_cycle,
                       data |-> async_update_data(edf_stage.meta_ok, edf_stage.standing, answer,
                                                  edf_data.data, PipelineNow, ScanInterval)]
    /\ edf_pc' = "idle"
    /\ UNCHANGED <<edf_cycle, edf_stage, cost_pc, cost_cycle, cost_read, cost_yesterday, cost_data>>
    /\ PipelineOthersUnchanged

\* the dict CostCoordinator returns once both periods are settled
CostFinish(read, yesterday, today) ==
    /\ cost_data' = CostResult(read, yesterday, today)
    /\ cost_pc' = "idle"
    /\ cost_yesterday' = NoPeriod

\* after yesterday is settled: today's call, up to its recorder call or to
\* its return
CostTodayOrFinish(read, yesterday) ==
    IF read.today_slots # <<>> /\ AwaitsHistory(read.today_slots, PipelineNow)
    THEN /\ cost_pc' = "today"
         /\ cost_yesterday' = yesterday
         /\ UNCHANGED cost_data
    ELSE CostFinish(read, yesterday, NoPeriod)

\* CostCoordinator.async_refresh is called, by async_setup_entry after the
\* first refresh of EDFCoordinator or by the update_interval timer, and
\* _async_update_data runs up to its first await or to its return
CostStart ==
    /\ cost_pc = "idle"
    /\ edf_data.cycle >= 1
    /\ cost_cycle < MaxCycles
    /\ cost_cycle' = cost_cycle + 1
    /\ LET read == [cycle |-> edf_data.cycle,
                    yesterday_slots |-> edf_data.data.yesterday_24_hours,
                    today_slots |-> edf_data.data.today_24_hours,
                    standing_charge_inc_vat |-> edf_data.data.standing_charge_inc_vat]
       IN IF ~import_sensor \/ (read.yesterday_slots = <<>> /\ read.today_slots = <<>>)
          THEN /\ cost_data' = EarlyCostResult
               /\ UNCHANGED <<cost_pc, cost_read, cost_yesterday>>
          ELSE /\ cost_read' = read
               /\ IF read.yesterday_slots # <<>> /\ AwaitsHistory(read.yesterday_slots, NoTime)
                  THEN /\ cost_pc' = "yesterday"
                       /\ UNCHANGED <<cost_yesterday, cost_data>>
                  ELSE CostTodayOrFinish(read, NoPeriod)
    /\ UNCHANGED <<edf_pc, edf_cycle, edf_stage, edf_data>>
    /\ PipelineOthersUnchanged

\* the recorder call for yesterday ends; yesterday's call runs to its end
\* and today's call starts
CostYesterdayHistory ==
    /\ cost_pc = "yesterday"
    /\ \E outcome \in HistoryOutcomes(PeriodStart(cost_read.yesterday_slots, NoTime),
                                      PeriodEnd(cost_read.yesterday_slots, NoTime)) :
          CostTodayOrFinish(cost_read,
                            PeriodResult(cost_read.yesterday_slots, NoTime, outcome,
                                         cost_read, edf_data))
    /\ UNCHANGED <<cost_cycle, cost_read>>
    /\ UNCHANGED <<edf_pc, edf_cycle, edf_stage, edf_data>>
    /\ PipelineOthersUnchanged

\* the recorder call for today ends; today's call runs to its end and the
\* dict is returned
CostTodayHistory ==
    /\ cost_pc = "today"
    /\ \E outcome \in HistoryOutcomes(PeriodStart(cost_read.today_slots, PipelineNow),
                                      PeriodEnd(cost_read.today_slots, PipelineNow)) :
          CostFinish(cost_read, cost_yesterday,
                     PeriodResult(cost_read.today_slots, PipelineNow, outcome,
                                  cost_read, edf_data))
    /\ UNCHANGED <<cost_cycle, cost_read>>
    /\ UNCHANGED <<edf_pc, edf_cycle, edf_stage, edf_data>>
    /\ PipelineOthersUnchanged

NextPipeline ==
    \/ EdfStart
    \/ EdfMetadata
    \/ EdfStanding
    \/ EdfInterval
    \/ CostStart
    \/ CostYesterdayHistory
    \/ CostTodayHistory

SpecPipeline == InitPipeline /\ [][NextPipeline]_vars

---------------------------------------------------------------------------
(* AlignedScheduler and EDFCoordinator._handle_refresh, in steps of 5 s *)

\* random.uniform(0, 5): the jitter is at most one step
JitterSteps == 1
\* async_timeout.timeout(10) around the pages of one fetch_all_pages call
FetchTimeoutSteps == 2
\* async_timeout.timeout(15) in async_fetch_standing_charges
StandingTimeoutSteps == 3
\* the smallest scan interval the config flow accepts: 1 minute
MinScanSteps == 12
\* the last instant modelled
MaxTime == 40

\* The mutant of C18: the fetches have no timeout.
stage_timeout_none(stage) == MaxTime

\* the longest a refresh stays suspended in the fetch of a stage
stage_timeout(stage) ==
    IF stage = "standing" THEN StandingTimeoutSteps ELSE FetchTimeoutSteps

\* _initialise_boundary: the first multiple of the interval after now
initialise_boundary(b, n, interval) ==
    IF b # NoTime THEN b ELSE ((n \div interval) + 1) * interval

\* The mutant of C26: the boundary is advanced by one interval at most.
advance_boundary_once(b, n, interval) == IF b <= n THEN b + interval ELSE b

\* _advance_boundary: while boundary <= now: boundary += scan_interval
RECURSIVE advance_boundary(_, _, _)
advance_boundary(b, n, interval) ==
    IF b <= n THEN advance_boundary(b + interval, n, interval) ELSE b

\* _seconds_until_boundary
seconds_until_boundary(b, n, interval) ==
    LET delta == advance_boundary(initialise_boundary(b, n, interval), n, interval) - n
    IN IF delta <= 0 THEN interval ELSE delta

\* AlignedScheduler.schedule: the pending callback, if any, is cancelled and
\* one callback is set to fire after the delay
Schedule(jitter) ==
    /\ boundary' = advance_boundary(initialise_boundary(boundary, sched_now, scan_steps),
                                    sched_now, scan_steps)
    /\ timer' = sched_now + seconds_until_boundary(boundary, sched_now, scan_steps) + jitter

\* async_refresh: _async_update_data starts and suspends in the metadata fetch
NewCycle(id) == [id |-> id, stage |-> "metadata", deadline |-> sched_now + stage_timeout("metadata")]

NextStage(stage) == IF stage = "metadata" THEN "standing" ELSE "interval"

InitSchedule ==
    /\ pc = "start"
    /\ ClassifyIdle
    /\ BlocksIdle
    /\ RefreshIdle
    /\ CostIdle
    /\ ForecastIdle
    /\ HeartbeatIdle
    /\ PipelineIdle
    /\ ThirdIdle
    /\ scan_steps \in {MinScanSteps, MinScanSteps + 1}
    /\ sched_now \in 0 .. MinScanSteps - 1
    /\ boundary = NoTime
    /\ timer = NoTime
    /\ in_flight = {}
    /\ started = 0

ScheduleOthersUnchanged ==
    UNCHANGED <<pc, classify_vars, block_vars, refresh_vars, cost_vars, forecast_vars,
                heartbeat_vars, pipeline_vars, third_vars, scan_steps>>

\* async_config_entry_first_refresh up to its first await: the first
\* refresh starts
FirstRefresh ==
    /\ started = 0
    /\ in_flight' = {NewCycle(1)}
    /\ started' = 1
    /\ UNCHANGED <<sched_now, boundary, timer>>
    /\ ScheduleOthersUnchanged

\* the fetch a refresh is suspended in ends, by its timeout at the latest;
\* after the interval stage the refresh returns, and the first refresh is
\* followed by scheduler.schedule
StageEnds ==
    /\ \E c \in in_flight :
          IF c.stage # "interval"
          THEN /\ in_flight' = (in_flight \ {c})
                     \cup {[c EXCEPT !.stage = NextStage(c.stage),
                                     !.deadline = sched_now + stage_timeout(NextStage(c.stage))]}
               /\ UNCHANGED <<boundary, timer>>
          ELSE /\ in_flight' = in_flight \ {c}
               /\ IF c.id = 1
                  THEN \E jitter \in 0 .. JitterSteps : Schedule(jitter)
                  ELSE UNCHANGED <<boundary, timer>>
    /\ UNCHANGED <<sched_now, started>>
    /\ ScheduleOthersUnchanged

\* the callback fires: _handle_refresh schedules the next callback, then
\* calls async_refresh
HandleRefresh ==
    /\ timer = sched_now
    /\ \E jitter \in 0 .. JitterSteps : Schedule(jitter)
    /\ in_flight' = in_flight \cup {NewCycle(started + 1)}
    /\ started' = started + 1
    /\ UNCHANGED sched_now
    /\ ScheduleOthersUnchanged

\* five seconds pass: no callback is due and no fetch is past its timeout
Tick ==
    /\ sched_now < MaxTime
    /\ started >= 1
    /\ timer # sched_now
    /\ \A c \in in_flight : c.deadline > sched_now
    /\ sched_now' = sched_now + 1
    /\ UNCHANGED <<boundary, timer, in_flight, started>>
    /\ ScheduleOthersUnchanged

NextSchedule ==
    \/ FirstRefresh
    \/ StageEnds
    \/ HandleRefresh
    \/ Tick

SpecSchedule == InitSchedule /\ [][NextSchedule]_vars

---------------------------------------------------------------------------
(* C6, C7: classify_slot *)

\* C6: for every start instant and every price <= 0, classify_slot returns
\* Green, whatever the time of day.
C6_NonPositivePriceIsGreen ==
    (pc = "done" /\ price <= 0) => phase.label = "Green"

\* a slot starting at 17:00, in the Red window, priced at 0 or below, was
\* classified Green
C6_Witness ==
    /\ pc = "done"
    /\ price <= 0
    /\ TimeOfDay(start_time) = time(17, 0)
    /\ phase.label = "Green"

\* C7: for every price > 0 the label is Green in [23:00, 24:00) and
\* [00:00, 06:00), Red in [16:00, 19:00) and Amber at every other time of
\* day, and it is never returned by the fallback return.
C7_TimeOfDayWindows ==
    (pc = "done" /\ price > 0) =>
        LET t == TimeOfDay(start_time) IN
        /\ phase.label \in {"Green", "Amber", "Red"}
        /\ phase.label = "Green" <=> (t >= 23 * 60 \/ t < 6 * 60)
        /\ phase.label = "Red" <=> (16 * 60 <= t /\ t < 19 * 60)
        /\ phase.label = "Amber" <=> ((6 * 60 <= t /\ t < 16 * 60) \/ (19 * 60 <= t /\ t < 23 * 60))
        /\ phase.line # FallbackReturnLine

\* a slot priced above 0 starting at 16:00 exactly was classified Red
C7_Witness ==
    /\ pc = "done"
    /\ price > 0
    /\ TimeOfDay(start_time) = 16 * 60
    /\ phase.label = "Red"

---------------------------------------------------------------------------
(* C3: group_phase_blocks *)

IndexPermutations(n) == {p \in [1 .. n -> 1 .. n] : \A i, j \in 1 .. n : p[i] = p[j] => i = j}

\* seq is `from` sorted by start, slots without a start last, slots with
\* equal starts in the order they have in `from`
IsStartSortOf(seq, from) ==
    /\ Len(seq) = Len(from)
    /\ \E p \in IndexPermutations(Len(from)) :
          /\ \A i \in 1 .. Len(seq) : seq[i] = from[p[i]]
          /\ \A i, j \in 1 .. Len(seq) :
                i < j => /\ ~StartKeyLess(seq[j], seq[i])
                         /\ (~StartKeyLess(seq[i], seq[j]) => p[i] < p[j])

\* C3: the blocks concatenated in order are the start-sorted input (nothing
\* gained, lost or reordered), a block holds one phase, and adjacent blocks
\* hold different phases.
C3_BlocksPartitionSortedSlots ==
    pc = "done" =>
        /\ IsStartSortOf(Concat(blocks), slots)
        /\ \A b \in 1 .. Len(blocks) :
              /\ blocks[b] # <<>>
              /\ \A i \in 1 .. Len(blocks[b]) : blocks[b][i].phase = blocks[b][1].phase
        /\ \A b \in 1 .. (Len(blocks) - 1) :
              Last(blocks[b]).phase # blocks[b + 1][1].phase

\* three slots given out of order, two phases: two blocks came back, the
\* first holding two slots
C3_Witness ==
    /\ pc = "done"
    /\ Len(slots) = 3
    /\ slots[1].start_dt > slots[2].start_dt
    /\ slots[2].start_dt # NoTime
    /\ Len(blocks) = 2
    /\ Len(blocks[1]) = 2

---------------------------------------------------------------------------
(* C8, C9: build_unified_dataset *)

WellFormed(items) == \A i \in 1 .. Len(items) : ~RecordRaises(items[i])

HasDuplicateStarts(items) ==
    \E i, j \in 1 .. Len(items) :
        /\ i < j
        /\ ~RecordRaises(items[i])
        /\ ~RecordRaises(items[j])
        /\ items[i].valid_from = items[j].valid_from

NonDecreasingByStart(us) == \A i, j \in 1 .. Len(us) : i < j => us[i].start <= us[j].start
StrictlyIncreasingByStart(us) == \A i, j \in 1 .. Len(us) : i < j => us[i].start < us[j].start

\* build_unified_dataset was called and returned a list
Built == pc # "start" /\ raw_items # <<>> /\ ~unified.raised

\* C8: the timeline built is strictly increasing by start, no two intervals
\* sharing a start, and an input with duplicate starts is detected and
\* reported, not kept.
C8_DuplicatesDetected ==
    (pc # "start" /\ raw_items # <<>>) =>
        /\ ~unified.raised => StrictlyIncreasingByStart(unified.slots)
        /\ HasDuplicateStarts(raw_items) => unified.raised

\* What does hold of build_unified_dataset: the timeline built is
\* non-decreasing by start, and strictly increasing exactly when no two
\* records share a start; records sharing a start are all kept, and a
\* well-formed input is never refused.
DuplicateStartsKept ==
    (pc # "start" /\ raw_items # <<>>) =>
        /\ WellFormed(raw_items) => ~unified.raised
        /\ ~unified.raised =>
              /\ NonDecreasingByStart(unified.slots)
              /\ Len(unified.slots) = Len(raw_items)
              /\ StrictlyIncreasingByStart(unified.slots) <=> ~HasDuplicateStarts(raw_items)

\* C8 witness: two records sharing a start, given after a later one, were
\* both kept.
C8_Witness ==
    /\ Built
    /\ Len(raw_items) = 3
    /\ raw_items[1].valid_from > raw_items[2].valid_from
    /\ raw_items[2].valid_from = raw_items[3].valid_from
    /\ raw_items[2].value_inc_vat # raw_items[3].value_inc_vat
    /\ Len(unified.slots) = 3
    /\ unified.slots[1].start = unified.slots[2].start

\* us holds one interval per record of items, each with the record's start,
\* end and price
OneIntervalPerRecord(us, items) ==
    /\ Len(us) = Len(items)
    /\ \E p \in IndexPermutations(Len(items)) :
          \A i \in 1 .. Len(us) :
              /\ us[i].start = items[p[i]].valid_from
              /\ us[i].end = items[p[i]].valid_to
              /\ us[i].value = items[p[i]].value_inc_vat

\* C9: build_unified_dataset fails as a whole or returns one interval per
\* raw record in non-decreasing start order, and it fails whenever a record
\* lacks valid_from, valid_to or value_inc_vat or holds an unparseable instant.
C9_AllOrNothing ==
    (pc # "start" /\ raw_items # <<>>) =>
        /\ unified.raised => unified.slots = <<>>
        /\ ~unified.raised =>
              /\ OneIntervalPerRecord(unified.slots, raw_items)
              /\ NonDecreasingByStart(unified.slots)
        /\ ~WellFormed(raw_items) => unified.raised

\* three well-formed records given latest first came back earliest first
C9_Witness ==
    /\ Built
    /\ Len(raw_items) = 3
    /\ raw_items[1].valid_from > raw_items[2].valid_from
    /\ raw_items[2].valid_from > raw_items[3].valid_from
    /\ unified.slots[1].start = raw_items[3].valid_from
    /\ unified.slots[3].start = raw_items[1].valid_from

---------------------------------------------------------------------------
(* C10: the current slot of a refresh *)

Contains(s, n) == s.start <= n /\ n < s.end

\* C10: the slot selected as current holds now in [start, end), none is
\* selected exactly when no slot holds now, a slot ending at now is never
\* selected, and when a slot starts at now the selected slot starts at now.
\* When none is selected the published current slot is no interval: it
\* carries no start and no end.
C10_CurrentIsHalfOpen ==
    pc = "done" =>
        /\ current_raw # NoSlot =>
              /\ \E i \in 1 .. Len(unified.slots) : unified.slots[i] = current_raw
              /\ Contains(current_raw, now)
              /\ current_slot.start_dt = current_raw.start
        /\ current_raw = NoSlot <=>
              ~\E i \in 1 .. Len(unified.slots) : Contains(unified.slots[i], now)
        /\ current_raw.end # now
        /\ (\E i \in 1 .. Len(unified.slots) : unified.slots[i].start = now)
              => current_raw.start = now
        /\ current_raw = NoSlot =>
              current_slot.start_dt = NoTime /\ current_slot.end_dt = NoTime

\* now is the end of one slot and the start of the next: the next is current
C10_Witness ==
    /\ pc = "done"
    /\ \E i, j \in 1 .. Len(unified.slots) :
          /\ unified.slots[i].end = now
          /\ unified.slots[j].start = now
          /\ current_raw = unified.slots[j]

---------------------------------------------------------------------------
(* C4, C5: _compute_deltas *)

\* the consecutive pairs of states, named by the index of the earlier one
Pairs == 1 .. (Len(states) - 1)
DecreasingPairs == {i \in Pairs : states[i + 1].value < states[i].value}

\* the span of pair i clipped to the period, and the delta of its own two readings
ClippedStart(i) == Max2(states[i].ts, period_start)
ClippedEnd(i) == Min2(states[i + 1].ts, period_end)
OwnDelta(i) ==
    [start |-> ClippedStart(i), end |-> ClippedEnd(i),
     kwh |-> states[i + 1].value - states[i].value]

\* the pairs that are not decreasing and whose clipped span is not empty, in order
UsablePairs ==
    SetToSortedSeq({i \in Pairs : i \notin DecreasingPairs /\ ClippedEnd(i) > ClippedStart(i)})

\* C4: for states in strictly increasing time order of which exactly one
\* consecutive pair decreases, _compute_deltas returns no delta for that
\* pair, no delta with a negative quantity, and for every other pair whose
\* clipped span is not empty, the pairs before and after the decreasing one
\* among them, the difference of that pair's own two readings over that
\* span, in time order.
C4_ResetPairDropped ==
    (pc = "done" /\ Cardinality(DecreasingPairs) = 1)
        => /\ deltas = [j \in 1 .. Len(UsablePairs) |-> OwnDelta(UsablePairs[j])]
           /\ \A j \in 1 .. Len(deltas) : deltas[j].kwh >= 0
           /\ \A i \in DecreasingPairs :
                 \A j \in 1 .. Len(deltas) :
                    ~(deltas[j].start = states[i].ts /\ deltas[j].end = states[i + 1].ts)

\* C4 witness: four states inside the period, the middle pair decreasing, the
\* pairs before and after it each giving a positive delta.
C4_Witness ==
    /\ pc = "done"
    /\ Len(states) = 4
    /\ DecreasingPairs = {2}
    /\ period_start <= states[1].ts
    /\ states[4].ts <= period_end
    /\ Len(deltas) = 2
    /\ deltas[1].kwh > 0
    /\ deltas[2].kwh > 0

\* all states lie inside the period, so no span is clipped
InsidePeriod ==
    \A i \in 1 .. Len(states) : period_start <= states[i].ts /\ states[i].ts <= period_end

\* C5: when exactly one pair decreases and a pair follows it, that next
\* pair is compared against the earlier reading of the discarded pair: its
\* delta is its later reading minus that earlier reading, and it is discarded
\* too when that difference is negative.
C5_BaselineIsPreResetReading ==
    (pc = "done" /\ InsidePeriod /\ Cardinality(DecreasingPairs) = 1)
        => \A i \in DecreasingPairs :
              (i + 2 <= Len(states))
                 => LET diff == states[i + 2].value - states[i].value
                        after == {j \in 1 .. Len(deltas) : deltas[j].end = states[i + 2].ts}
                    IN IF diff < 0 THEN after = {}
                       ELSE /\ after # {}
                            /\ \A j \in after : deltas[j].kwh = diff

\* C5 witness: the meter reads MaxVal, then 0, then MaxVal again; the delta
\* returned for the last pair is MaxVal, taken against the lower reading.
C5_Witness ==
    /\ pc = "done"
    /\ InsidePeriod
    /\ Len(states) = 3
    /\ states[1].value = MaxVal
    /\ states[2].value = 0
    /\ states[3].value = MaxVal
    /\ deltas = <<[start |-> states[2].ts, end |-> states[3].ts, kwh |-> MaxVal]>>

---------------------------------------------------------------------------
(* C1: _align_deltas_to_slots *)

\* the delta lies inside the union of the slots' spans
CoveredBySlots(d, ss) ==
    \A t \in d.start .. (d.end - 1) :
        \E i \in 1 .. Len(ss) : ss[i].start <= t /\ t < ss[i].end

DeltaKwh(ds) == SeqSum([i \in 1 .. Len(ds) |-> ds[i].kwh])

NoTwoSlotsOverlap(ss) ==
    \A i, j \in 1 .. Len(ss) :
        i < j => (ss[i].end <= ss[j].start \/ ss[j].end <= ss[i].start)

\* C1: when every delta lies inside the union of the slots' spans, the
\* quantities of the returned SlotCosts add up to the quantities of the deltas.
C1_QuantityConserved ==
    (pc = "done" /\ \A i \in 1 .. Len(deltas) : CoveredBySlots(deltas[i], norm_slots))
        => KwhOf(slot_costs) = KwhDen * DeltaKwh(deltas)

\* C1 witness: the same half-hour slot passed twice and one delta of MaxKwh
\* inside it; each copy is given the whole delta.
C1_Witness ==
    /\ pc = "done"
    /\ Len(norm_slots) = 2
    /\ norm_slots[1] = norm_slots[2]
    /\ Len(deltas) = 1
    /\ deltas[1].kwh = MaxKwh
    /\ CoveredBySlots(deltas[1], norm_slots)
    /\ Len(slot_costs) = 2
    /\ slot_costs[1].kwh = KwhDen * MaxKwh
    /\ slot_costs[2].kwh = KwhDen * MaxKwh

\* What does hold of _align_deltas_to_slots: the quantities are conserved
\* when no two slots overlap.
QuantityConservedOnDisjointSlots ==
    (/\ pc = "done"
     /\ NoTwoSlotsOverlap(norm_slots)
     /\ \A i \in 1 .. Len(deltas) : CoveredBySlots(deltas[i], norm_slots))
        => KwhOf(slot_costs) = KwhDen * DeltaKwh(deltas)

\* The example of the share by overlap: a delta of MaxKwh over ticks 1 .. 5
\* against three half-hour slots from tick 0 is split 1 : 2 : 1.
ProportionalShareExample ==
    /\ pc = "done"
    /\ Len(norm_slots) = 3
    /\ \A i \in 1 .. 3 : norm_slots[i].start = (i - 1) * SlotTicks
    /\ deltas = <<[start |-> 1, end |-> 1 + 2 * SlotTicks, kwh |-> MaxKwh]>>
    /\ Len(slot_costs) = 3
    /\ 4 * slot_costs[1].kwh = KwhDen * MaxKwh
    /\ 4 * slot_costs[2].kwh = 2 * KwhDen * MaxKwh
    /\ 4 * slot_costs[3].kwh = KwhDen * MaxKwh

---------------------------------------------------------------------------
(* C2: the period summary *)

Abs(x) == IF x < 0 THEN 0 - x ELSE x

RECURSIVE SumOver(_, _, _)
SumOver(f, S, field) ==
    IF S = {} THEN 0
    ELSE LET x == CHOOSE y \in S : TRUE
         IN (IF field = "kwh" THEN f[x].kwh ELSE f[x].cost) + SumOver(f, S \ {x}, field)

PerSlotKwh == SeqSum([i \in 1 .. Len(summary.per_slot) |-> summary.per_slot[i].kwh])
PerSlotCost == SeqSum([i \in 1 .. Len(summary.per_slot) |-> summary.per_slot[i].cost_gbp])
PerPhaseKwh == SumOver(summary.per_phase, DOMAIN summary.per_phase, "kwh")
PerPhaseCost == SumOver(summary.per_phase, DOMAIN summary.per_phase, "cost")

\* a total and the sum of n parts, each rounded to 10^-4 on its own, lie
\* within (n + 1) / 2 units of 10^-4 of each other
WithinRounding(total, parts, n) == 2 * Abs(total - parts) <= n + 1

\* C2: in every summary returned that is not None, total_cost equals the sum
\* of the per_phase costs and the sum of the per_slot costs, and total_kwh
\* the sum of the per_phase kwh and the sum of the per_slot kwh, up to the
\* rounding of each figure to four decimals.
C2_TotalsMatchBreakdowns ==
    (pc = "done" /\ ~summary.is_none)
        => /\ WithinRounding(summary.total_cost, PerSlotCost, Len(summary.per_slot))
           /\ WithinRounding(summary.total_kwh, PerSlotKwh, Len(summary.per_slot))
           /\ WithinRounding(summary.total_cost, PerPhaseCost,
                             Cardinality(DOMAIN summary.per_phase))
           /\ WithinRounding(summary.total_kwh, PerPhaseKwh,
                             Cardinality(DOMAIN summary.per_phase))

\* C2 witness: a summary over three slots, one of them without a phase, whose
\* rounded per_slot kwh do not add up to the rounded total exactly.
C2_Witness ==
    /\ pc = "done"
    /\ ~summary.is_none
    /\ Len(summary.per_slot) = 3
    /\ "Unknown" \in DOMAIN summary.per_phase
    /\ Cardinality(DOMAIN summary.per_phase) >= 2
    /\ PerSlotKwh # summary.total_kwh

---------------------------------------------------------------------------
(* C11: the next_24_hours window *)

\* the indices of the slots of the timeline that start at now or later
Qualifying == {i \in 1 .. Len(unified.slots) : unified.slots[i].start >= now}

\* C11: next_24_hours holds the first 48 slots of the sorted timeline that
\* start at now or later, in timeline order, and all of them when fewer
\* than 48 do: nothing is added and the call does not fail.
C11_NextWindowIsFirst48 ==
    pc = "done" =>
        LET inOrder == SetToSortedSeq(Qualifying)
        IN /\ Len(forecasts.next_24_hours) = Min2(ForecastSlots, Len(inOrder))
           /\ \A j \in 1 .. Len(forecasts.next_24_hours) :
                 forecasts.next_24_hours[j] = unified.slots[inOrder[j]]

\* C11 witness: more than 48 slots start at now or later, one of them at
\* now exactly, one slot started before now, and 48 slots were returned.
C11_Witness ==
    /\ pc = "done"
    /\ Cardinality(Qualifying) > ForecastSlots
    /\ Qualifying # 1 .. Len(unified.slots)
    /\ Len(forecasts.next_24_hours) = ForecastSlots
    /\ forecasts.next_24_hours[1].start = now

\* C11 witness of the short case: fewer than 48 slots qualify and all of
\* them are returned.
C11_FewerThan48 ==
    /\ pc = "done"
    /\ Cardinality(Qualifying) \in 1 .. (ForecastSlots - 1)
    /\ Len(forecasts.next_24_hours) = Cardinality(Qualifying)

---------------------------------------------------------------------------
(* C12: a period without slot costs *)

\* C12: when no SlotCost is produced for the period, for want of readings,
\* of a second reading, or of a delta that gives a slot a positive quantity,
\* _compute_period_cost returns None.
C12_NoSlotCostGivesNone ==
    (pc = "done" /\ slot_costs = <<>>) => summary.is_none

\* C12 witness: two readings of the same value inside a priced slot give one
\* delta of 0 kWh and no SlotCost; the summary returned is not None and
\* holds zero totals and empty breakdowns.
C12_Witness ==
    /\ pc = "done"
    /\ norm_slots # <<>>
    /\ Len(states) = 2
    /\ Len(deltas) = 1
    /\ deltas[1].kwh = 0
    /\ slot_costs = <<>>
    /\ ~summary.is_none
    /\ summary.total_kwh = 0
    /\ summary.total_cost = 0
    /\ summary.per_slot = <<>>

\* What does hold of _compute_period_cost: None is returned exactly when no
\* slot is kept, no state is recorded or no delta is returned.
NoneOnlyWithoutDeltas ==
    pc = "done" => (summary.is_none <=> (norm_slots = <<>> \/ states = <<>> \/ deltas = <<>>))

---------------------------------------------------------------------------
(* C13: the shape of the result of a refresh *)

Refreshed == data # NoData
Failed == Refreshed /\ IntervalStageRaises(inputs.answer)
Succeeded == Refreshed /\ ~IntervalStageRaises(inputs.answer)

\* the fields a failed refresh leaves empty
FailureFieldsCleared(d) ==
    /\ d.current_price = NoPrice
    /\ d.next_price = NoPrice
    /\ d.current_slot = NoNormSlot
    /\ d.current_block_summary = NoBlockSummary
    /\ d.next_block_summary = NoBlockSummary
    /\ d.next_24_hours = <<>>
    /\ d.today_24_hours = <<>>
    /\ d.tomorrow_24_hours = <<>>
    /\ d.yesterday_24_hours = <<>>
    /\ d.all_slots_sorted = <<>>
    /\ d.coordinator_status = "api_error"

\* C13: every refresh returns a result with the same set of keys as the
\* refresh before it, whether it succeeds or fails, and a refresh whose
\* interval stage fails returns None in all price and summary fields,
\* empty slot lists and the error state as coordinator_status.
C13_SameKeysAndClearedOnFailure ==
    [][/\ Refreshed => data'.keys = data.keys
       /\ IntervalStageRaises(inputs'.answer) => FailureFieldsCleared(data')]_vars

\* a refresh failed after one that succeeded
C13_Witness ==
    /\ Failed
    /\ previous_updated # NoTime
    /\ last_success # NoTime

\* C13, the part the code keeps: a failed refresh returns the cleared fields
\* and a result is returned whatever the stages met.
FailureResultIsCleared ==
    /\ Failed => FailureFieldsCleared(data) /\ data.keys = FailureKeys
    /\ Succeeded => data.keys = SuccessKeys

---------------------------------------------------------------------------
(* C14: the primary status *)

\* the ordering the heartbeat is documented with, most severe first
SeverityOrdering ==
    <<"api_error", "no_data", "unexpected_format", "rate_limited", "stale", "partial">>

Position(seq, x) == CHOOSE i \in 1 .. Len(seq) : seq[i] = x
Listed(seq, x) == \E i \in 1 .. Len(seq) : seq[i] = x

\* f comes before g in the ordering
MoreSevere(seq, f, g) ==
    Listed(seq, f) /\ Listed(seq, g) /\ Position(seq, f) < Position(seq, g)

RaisedFlags(d) == {f \in FlagNames : d.flags[f]}

C14_Healthy ==
    /\ Succeeded
    /\ RaisedFlags(data) = {}
    /\ data.coordinator_status = "healthy"

---------------------------------------------------------------------------
(* C15: an answer without records *)

\* fetch_all_pages(api_url) returned a list and the list is empty
EmptyAnswer(a) == a.kind = "list" /\ a.items = <<>>

\* C15: after a refresh whose interval fetch returned an empty list of
\* records, the no_data flag is raised, the api_error flag is not raised
\* and coordinator_status is no_data.
C15_EmptyAnswerIsNoData ==
    (Refreshed /\ EmptyAnswer(inputs.answer)) =>
        /\ data.flags["no_data"]
        /\ ~data.flags["api_error"]
        /\ data.coordinator_status = "no_data"

\* a refresh whose interval fetch returned an empty list
C15_Witness ==
    /\ Refreshed
    /\ EmptyAnswer(inputs.answer)
    /\ data.flags["no_data"]

\* C15, what the code does: the empty answer is fatal and raises no_data,
\* together with api_error, which becomes the status.
EmptyAnswerIsApiError ==
    (Refreshed /\ EmptyAnswer(inputs.answer)) =>
        /\ Failed
        /\ data.flags["no_data"]
        /\ data.flags["api_error"]
        /\ data.coordinator_status = "api_error"

---------------------------------------------------------------------------
(* C16: stale *)

\* the last refresh came more than twice the scan interval after the
\* refresh before it that succeeded
LongSinceSuccess ==
    previous_success # NoTime /\ clock - previous_success > 2 * ScanInterval

\* C16: after every successful refresh the stale flag is raised exactly when
\* an earlier refresh succeeded and the time since the latest such refresh
\* exceeds twice the scan interval, failed refreshes in between or not.
C16_StaleIffLongSinceSuccess ==
    Succeeded => (data.flags["stale"] <=> LongSinceSuccess)

\* a refresh succeeded more than twice the scan interval after the previous
\* success, with a failed refresh in between
C16_Witness ==
    /\ Succeeded
    /\ LongSinceSuccess
    /\ previous_updated = NoTime

\* C16, what the code does: the gap is measured from last_updated of the
\* refresh just before, which a failed refresh sets to None.
StaleIffLongSincePreviousRefresh ==
    Succeeded =>
        (data.flags["stale"] <=>
            (previous_updated # NoTime /\ clock - previous_updated > 2 * ScanInterval))

\* a successful refresh directly after a success raises stale as required
StaleRaisedAfterLateRefresh ==
    /\ Succeeded
    /\ LongSinceSuccess
    /\ previous_updated = previous_success
    /\ data.flags["stale"]

---------------------------------------------------------------------------
(* C17: partial *)

\* the last refresh of EDFCoordinator succeeded although its metadata
\* fetch failed
MetadataFailedOnly ==
    edf_data.data.keys = SuccessKeys /\ edf_data.data.flags["metadata_error"]

\* the fields of the interval stage are populated
IntervalFieldsPopulated(d) ==
    /\ d.all_slots_sorted # <<>>
    /\ d.current_price # NoPrice
    /\ d.current_slot # NoNormSlot
    /\ d.last_updated # NoTime

\* CostCoordinator returned its full dict and one of the two period
\* computations had raised
CostPeriodFailed ==
    cost_data.keys = CostKeys /\ (cost_data.yesterday.raised \/ cost_data.today.raised)

\* C17: when the metadata fetch fails and the interval stage succeeds, the
\* result of EDFCoordinator has partial raised and its interval fields
\* populated; when the cost computation of one period fails, the result of
\* CostCoordinator has partial raised.
C17_PartialOnNonFatalFailure ==
    /\ MetadataFailedOnly =>
          edf_data.data.flags["partial"] /\ IntervalFieldsPopulated(edf_data.data)
    /\ CostPeriodFailed => cost_data.flags["partial"]

\* yesterday's computation failed and today's summary is populated
C17_Witness ==
    /\ CostPeriodFailed
    /\ cost_data.yesterday.raised
    /\ ~cost_data.today.summary.is_none

\* C17, what the code does: a failed metadata fetch raises partial and
\* leaves the interval fields populated; a failed period raises error,
\* never partial, and the status of CostCoordinator is error.
PeriodFailureIsErrorNotPartial ==
    /\ MetadataFailedOnly =>
          edf_data.data.flags["partial"] /\ IntervalFieldsPopulated(edf_data.data)
    /\ CostPeriodFailed =>
          /\ cost_data.flags["error"]
          /\ ~cost_data.flags["partial"]
          /\ cost_data.coordinator_status = "error"
    /\ ~cost_data.flags["partial"]

\* the metadata fetch failed, the interval stage succeeded
MetadataFailureReached == MetadataFailedOnly

\* C14 for CostCoordinator: the status is the first raised flag of
\* error > history_missing > no_deltas > partial, healthy when none is
\* raised, and every flag is a key of the dict returned at the end.
CostStatusIsMostSevereFlag ==
    cost_data.keys = CostKeys =>
        /\ CostFlagNames \subseteq cost_data.keys
        /\ cost_data.coordinator_status = cost_primary_state(cost_data.flags)
        /\ cost_data.coordinator_status = "healthy"
              <=> \A f \in CostFlagNames : ~cost_data.flags[f]

---------------------------------------------------------------------------
(* C19: the order of the stages *)

\* a cost computation is under way
CostRunning == cost_pc # "idle"

\* C19: whenever a cost computation is under way, no refresh of
\* EDFCoordinator is in its metadata or interval stage, and the yesterday
\* and today windows the computation works on are those of the latest
\* refresh cycle started, not of an earlier one.
C19_CostAfterIntervalOfSameCycle ==
    CostRunning =>
        /\ edf_pc = "idle"
        /\ cost_read.cycle = edf_cycle

\* a cost computation is under way on windows read from a refresh
C19_Witness ==
    /\ CostRunning
    /\ cost_read.cycle >= 1
    /\ cost_read.today_slots # <<>>

\* C19, what the code keeps: inside one refresh of EDFCoordinator the
\* metadata, standing-charge and interval fetches follow one another in that
\* order, and no cost computation starts before the first refresh of
\* EDFCoordinator has returned.
StagesInOrder ==
    [][/\ edf_pc' # edf_pc =>
             <<edf_pc, edf_pc'>> \in {<<"idle", "metadata">>, <<"metadata", "standing">>,
                                      <<"standing", "interval">>, <<"interval", "idle">>}
       /\ cost_cycle' # cost_cycle => edf_data.cycle >= 1]_vars

\* a cost computation started while a later refresh of EDFCoordinator was
\* in flight, and works on the windows of the refresh before it
CostOnEarlierWindows ==
    /\ CostRunning
    /\ edf_pc = "interval"
    /\ cost_read.cycle < edf_cycle

---------------------------------------------------------------------------
(* C20: one snapshot *)

\* the period results a reader of CostCoordinator can see
PeriodResults == {cost_data.yesterday, cost_data.today, cost_yesterday}

\* C20: every period summary is made of tariff fields of one refresh of
\* EDFCoordinator: the slots it prorates against and the standing charge it
\* carries were published by the same refresh; and while a cost computation
\* is under way, the lists it read are not changed by a later refresh.
C20_SummaryFromOneSnapshot ==
    [][/\ \A r \in PeriodResults :
             ~r.summary.is_none => r.windows_cycle = r.standing_cycle
       /\ (CostRunning /\ cost_pc' # "idle") => cost_read' = cost_read]_vars

\* a summary computed for today by a computation that was suspended at the
\* recorder
C20_Witness ==
    /\ cost_data.keys = CostKeys
    /\ ~cost_data.today.summary.is_none
    /\ cost_data.today.windows_cycle >= 1

\* a summary whose slots are those of one refresh and whose standing charge
\* is that of the next
SummaryMixesRefreshes ==
    /\ ~cost_data.today.summary.is_none
    /\ cost_data.today.windows_cycle < cost_data.today.standing_cycle
    /\ cost_data.today.standing_charge_inc_vat # cost_data.standing_charge_inc_vat

\* C20, what the code keeps: a refresh publishes its dict in one step, and
\* what a cost computation read at its start stays as it was read.
ReadListsKept ==
    [][(CostRunning /\ cost_pc' # "idle") => cost_read' = cost_read]_vars

---------------------------------------------------------------------------
(* C18: one refresh at a time *)

FirstRefreshAcrossBoundary ==
    /\ started = 1
    /\ in_flight # {}
    /\ sched_now >= scan_steps

---------------------------------------------------------------------------
(* find_current_block on any list and any given interval *)

\* the intervals find_current_block may be given: None, or a start and a
\* phase, whether or not the list holds an interval with them
GivenIntervals == {NoNormSlot} \cup BlockSlots

InitFindBlock ==
    /\ pc = "start"
    /\ ClassifyIdle
    /\ RefreshIdle
    /\ CostIdle
    /\ ForecastIdle /\ HeartbeatIdle /\ PipelineIdle /\ ScheduleIdle
    /\ EventIdle /\ ClientIdle /\ DelayIdle /\ LifecycleIdle
    /\ slots \in SeqsUpTo(BlockSlots, MaxSlots)
    /\ blocks = <<>>
    /\ given \in GivenIntervals
    /\ current_block = <<>>
    /\ next_block = <<>>
    /\ next_phase_colour = "None"

\* one call find_current_block(slots, given)
FindCurrentBlock ==
    /\ pc = "start"
    /\ current_block' = find_current_block(slots, given)
    /\ pc' = "done"
    /\ UNCHANGED <<classify_vars, block_vars, refresh_vars, cost_vars, forecast_vars,
                    heartbeat_vars, pipeline_vars, schedule_vars, event_vars, client_vars,
                    delay_vars, lifecycle_vars, given, next_block, next_phase_colour>>

NextFindBlock == FindCurrentBlock

SpecFindBlock == InitFindBlock /\ [][NextFindBlock]_vars

---------------------------------------------------------------------------
(* C21 *)

\* the sorted sequence: the intervals that have a start, by start
SortedWithStart == SortedByStartDt(SelectSeq(slots, LAMBDA s : s.start_dt # NoTime))

\* the positions of the sorted sequence whose start is the given start
AtGivenStart ==
    {i \in 1 .. Len(SortedWithStart) : SortedWithStart[i].start_dt = given.start_dt}

\* the maximal run of consecutive positions around i whose intervals have
\* the phase of the interval at i
MaximalRun(ss, i) ==
    LET same(j) == \A k \in (IF j <= i THEN j .. i ELSE i .. j) : ss[k].phase = ss[i].phase
    IN SubSeq(ss, SetMin({j \in 1 .. i : same(j)}), SetMax({j \in i .. Len(ss) : same(j)}))

GivenIsAbsent == given = NoNormSlot \/ given.start_dt = NoTime \/ AtGivenStart = {}

FindCurrentBlockNoneWhenAbsent ==
    (pc = "done" /\ GivenIsAbsent) => current_block = <<>>

\* Lemma: when the given interval carries the phase of the interval found at
\* its start, the block is the maximal run around that interval.
MaximalRunWhenPhasesAgree ==
    (pc = "done" /\ ~GivenIsAbsent
     /\ SortedWithStart[SetMin(AtGivenStart)].phase = given.phase) =>
        current_block = MaximalRun(SortedWithStart, SetMin(AtGivenStart))

---------------------------------------------------------------------------
(* The block lookups of one refresh, and the event entity's next colour *)

\* EDFFreePhaseDynamicSlotEventEntity._find_next_phase_colour: the phase of
\* the first slot of the list that starts after the current slot's end and
\* has another phase than the current slot, "None" for None
find_next_phase_colour(cur, all_slots) ==
    IF cur.end_dt = NoTime THEN "None"
    ELSE LET hits == {i \in 1 .. Len(all_slots) :
                        /\ all_slots[i].start_dt # NoTime
                        /\ all_slots[i].start_dt > cur.end_dt
                        /\ all_slots[i].phase # cur.phase}
         IN IF hits = {} THEN "None" ELSE all_slots[SetMin(hits)].phase

InitLookup ==
    /\ pc = "start"
    /\ ClassifyIdle
    /\ BlocksIdle
    /\ CostIdle
    /\ ForecastIdle /\ HeartbeatIdle /\ PipelineIdle /\ ScheduleIdle
    /\ EventIdle /\ ClientIdle /\ DelayIdle /\ LifecycleIdle
    /\ LookupIdle
    /\ raw_items \in SeqsUpTo(RawRecords, MaxSlots)
    /\ now \in Ticks
    /\ unified = NotBuilt
    /\ current_raw = NoSlot
    /\ current_slot = NoNormSlot
    /\ current_price = NoPrice
    /\ next_price = NoPrice

\* the interval stage of one refresh up to the block summaries, and the
\* next colour the event entity derives from the data of that refresh
PhaseSummaries ==
    /\ pc = "start"
    /\ LET built == IF raw_items = <<>> THEN NotBuilt ELSE build_unified_dataset(raw_items)
           failed == raw_items = <<>> \/ built.raised
           cur == select_current(built.slots, now)
           published == IF failed THEN NoNormSlot ELSE publish_current(built.slots, cur)
           all_slots_sorted == NormalisedSlots(built.slots)
           cur_block == find_current_block(all_slots_sorted, published)
           bs == group_phase_blocks(all_slots_sorted)
       IN /\ unified' = built
          /\ current_raw' = IF failed THEN NoSlot ELSE cur
          /\ current_slot' = published
          /\ current_price' = published.value
          /\ next_price' = IF failed THEN NoPrice ELSE select_next_price(built.slots, now)
          /\ slots' = all_slots_sorted
          /\ blocks' = bs
          /\ given' = published
          /\ current_block' = cur_block
          /\ next_block' = find_next_block(bs, cur_block)
          /\ next_phase_colour' = IF failed THEN "None"
                                  ELSE find_next_phase_colour(published, all_slots_sorted)
          /\ pc' = IF failed THEN "failed" ELSE "done"
    /\ UNCHANGED <<raw_items, now, classify_vars, cost_vars, forecast_vars, heartbeat_vars,
                    pipeline_vars, schedule_vars, event_vars, client_vars, delay_vars,
                    lifecycle_vars>>

NextLookup == PhaseSummaries

SpecLookup == InitLookup /\ [][NextLookup]_vars

---------------------------------------------------------------------------
(* C22 *)

\* the current interval belongs to the timeline: a slot holds now
CurrentInTimeline == pc = "done" /\ current_raw # NoSlot

\* the position in the timeline of the slot selected as current
CurrentPosition == current_index(unified.slots, now)

\* the slots of the blocks before block k
RECURSIVE SlotsBefore(_, _)
SlotsBefore(bs, k) == IF k = 1 THEN 0 ELSE SlotsBefore(bs, k - 1) + Len(bs[k - 1])

\* the position, in the list of group_phase_blocks, of the block that holds
\* the current slot
CurrentBlockPosition ==
    CHOOSE k \in 1 .. Len(blocks) :
        /\ SlotsBefore(blocks, k) < CurrentPosition
        /\ CurrentPosition <= SlotsBefore(blocks, k) + Len(blocks[k])

\* the block that follows it, <<>> when it is the last
FollowingBlock ==
    IF CurrentBlockPosition = Len(blocks) THEN <<>> ELSE blocks[CurrentBlockPosition + 1]

\* C22: whenever the current interval belongs to the timeline, the next
\* block of the refresh is the block that follows the current block in the
\* list of group_phase_blocks, None only when the current block is the last:
\* the lookup of the current block in the list does not fail.
C22_NextBlockFollowsCurrentBlock ==
    CurrentInTimeline =>
        /\ current_block = blocks[CurrentBlockPosition]
        /\ next_block = FollowingBlock
        /\ (next_block = <<>>) <=> (CurrentBlockPosition = Len(blocks))

\* a current block of two slots, looked up and followed by another block
C22_Witness ==
    /\ CurrentInTimeline
    /\ Len(current_block) = 2
    /\ current_block[2] = current_slot
    /\ next_block # <<>>
    /\ next_block = blocks[2]

---------------------------------------------------------------------------
(* C30 *)

FollowingColour == IF FollowingBlock = <<>> THEN "None" ELSE FollowingBlock[1].phase

\* C30: for every timeline and every current slot in it, the colour
\* _find_next_phase_colour returns is the colour of the block that follows
\* the current block, also when that block is one slot starting at the
\* current slot's end and followed by a return to the current colour.
C30_NextColourIsFollowingBlock ==
    CurrentInTimeline => next_phase_colour = FollowingColour

\* the following block is one slot that starts at the current slot's end,
\* and the slot after it has the current colour again
C30_Witness ==
    /\ CurrentInTimeline
    /\ FollowingBlock # <<>>
    /\ Len(FollowingBlock) = 1
    /\ FollowingBlock[1].start_dt = current_slot.end_dt
    /\ Len(blocks) > CurrentBlockPosition + 1
    /\ blocks[CurrentBlockPosition + 2][1].phase = current_slot.phase
    /\ next_phase_colour = "None"

\* Lemma: the colour returned is never the current colour, and is the colour
\* of some slot that starts after the current slot's end.
NextColourIsOfLaterSlot ==
    (CurrentInTimeline /\ next_phase_colour # "None") =>
        /\ next_phase_colour # current_slot.phase
        /\ \E i \in 1 .. Len(slots) :
              slots[i].start_dt > current_slot.end_dt /\ slots[i].phase = next_phase_colour

---------------------------------------------------------------------------
(* EDFFreePhaseDynamicSlotEventEntity: one coordinator update after another *)

\* timedelta(minutes=30), in ticks
ENDING_SOON == 30 \div TickMinutes

\* the updates of one behaviour
MaxUpdates == 4

\* _build_phase_payload(block): the window's start and end
build_phase_payload(block) ==
    IF block = <<>> THEN [start |-> NoTime, end |-> NoTime]
    ELSE [start |-> block[1].start_dt, end |-> Last(block).end_dt]

\* one event as _emit receives it; at is the instant it is recorded with
Event(type, from, to, ends_at, window, at) ==
    [event_type |-> type, from |-> from, to |-> to, ends_at |-> ends_at,
     phase_window |-> window, at |-> at]

\* _find_current_phase_block
find_current_phase_block(current, all_slots) ==
    IF current = NoNormSlot \/ all_slots = <<>> THEN <<>>
    ELSE find_current_block(all_slots, current)

\* async_update with the entity's fields st, coordinator.data d, at instant
\* n: the fields afterwards and the events emitted, in order
async_update(st, d, n) ==
    LET current == d.current_slot
        all_slots == d.all_slots_sorted
        ph == current.phase
    IN IF current = NoNormSlot THEN [state |-> st, emitted |-> <<>>]
       ELSE IF st.prev_slot = NoNormSlot \/ st.prev_phase = "None"
       THEN [state |-> [prev_slot |-> current, prev_phase |-> ph,
                        prev_next_phase_colour |-> find_next_phase_colour(current, all_slots),
                        ending_soon_fired_for_end_dt |-> NoTime],
             emitted |-> <<>>]
       ELSE LET window == build_phase_payload(find_current_phase_block(current, all_slots))
                changed == ph # st.prev_phase
                fired == IF changed THEN NoTime ELSE st.ending_soon_fired_for_end_dt
                soon == /\ current.end_dt # NoTime
                        /\ current.end_dt - n <= ENDING_SOON
                        /\ fired # current.end_dt
                next_colour == find_next_phase_colour(current, all_slots)
                next_changed == next_colour # st.prev_next_phase_colour
            IN [state |-> [prev_slot |-> st.prev_slot,
                           prev_phase |-> ph,
                           prev_next_phase_colour |-> next_colour,
                           ending_soon_fired_for_end_dt |->
                               IF soon THEN current.end_dt ELSE fired],
                emitted |->
                    (IF changed
                     THEN <<Event("edf_fpd_phase_changed", st.prev_phase, ph, NoTime, window, n)>>
                     ELSE <<>>)
                    \o (IF soon
                        THEN <<Event("edf_fpd_phase_ending_soon", "None", ph, current.end_dt,
                                     window, n)>>
                        ELSE <<>>)
                    \o (IF next_changed
                        THEN <<Event("edf_fpd_next_phase_changed", st.prev_next_phase_colour,
                                     next_colour, NoTime, [start |-> NoTime, end |-> NoTime], n)>>
                        ELSE <<>>)]

\* the tariff the API serves during the behaviour: half-hour records in time
\* order, each half-hour at most once, gaps allowed
EventAnswers ==
    {l \in SeqsUpTo(AnswerRecords, MaxSlots) :
        Len(l) >= 1 /\ \A i \in 1 .. Len(l) - 1 : l[i].valid_from < l[i + 1].valid_from}

\* coordinator.data after a refresh at instant n: of a successful refresh,
\* or of a failed one (current_slot None, all_slots_sorted [])
EventData(ok, n) ==
    IF ~ok THEN NoEventData
    ELSE LET us == build_unified_dataset(raw_items).slots
         IN [current_slot |-> publish_current(us, select_current(us, n)),
             all_slots_sorted |-> NormalisedSlots(us)]

EntityState ==
    [prev_slot |-> prev_slot, prev_phase |-> prev_phase,
     prev_next_phase_colour |-> prev_next_phase_colour,
     ending_soon_fired_for_end_dt |-> ending_soon_fired_for_end_dt]

InitEvents ==
    /\ pc = "start"
    /\ ClassifyIdle
    /\ BlocksIdle
    /\ CostIdle
    /\ ForecastIdle /\ HeartbeatIdle /\ PipelineIdle /\ ScheduleIdle
    /\ LookupIdle /\ ClientIdle /\ DelayIdle /\ LifecycleIdle
    /\ EventIdle
    /\ raw_items \in EventAnswers
    /\ now = 0
    /\ unified = NotBuilt
    /\ current_raw = NoSlot
    /\ current_slot = NoNormSlot
    /\ current_price = NoPrice
    /\ next_price = NoPrice

\* a refresh ends, the coordinator calls its listeners and the entity's
\* async_update runs on the data of that refresh
CoordinatorUpdate ==
    /\ updates < MaxUpdates
    /\ \E gap \in 0 .. SlotTicks, ok \in BOOLEAN :
          /\ event_now + gap <= MaxTick
          /\ event_now' = event_now + gap
          /\ coordinator_data' = EventData(ok, event_now + gap)
          /\ LET after == async_update(EntityState, EventData(ok, event_now + gap),
                                       event_now + gap)
             IN /\ prev_slot' = after.state.prev_slot
                /\ prev_phase' = after.state.prev_phase
                /\ prev_next_phase_colour' = after.state.prev_next_phase_colour
                /\ ending_soon_fired_for_end_dt' = after.state.ending_soon_fired_for_end_dt
                /\ emitted' = after.emitted
                /\ event_history' = event_history \o after.emitted
    /\ previous_data' = coordinator_data
    /\ updates' = updates + 1
    /\ pc' = "done"
    /\ UNCHANGED <<classify_vars, block_vars, refresh_vars, cost_vars, forecast_vars,
                    heartbeat_vars, pipeline_vars, schedule_vars, lookup_vars, client_vars,
                    delay_vars, lifecycle_vars>>

NextEvents == CoordinatorUpdate

SpecEvents == InitEvents /\ [][NextEvents]_vars

---------------------------------------------------------------------------
(* C23 *)

PhaseChangedEvents(es) == {i \in 1 .. Len(es) : es[i].event_type = "edf_fpd_phase_changed"}
EndingSoonEvents(es) == {i \in 1 .. Len(es) : es[i].event_type = "edf_fpd_phase_ending_soon"}

\* the update of this step reads a current slot
ValidData == coordinator_data'.current_slot # NoNormSlot
\* it is the first valid data the entity sees
FirstValidData == ValidData /\ (prev_slot = NoNormSlot \/ prev_phase = "None")
\* its current slot and slot list are those of the update before
UnchangedData == ValidData /\ coordinator_data' = coordinator_data
\* its colour is not the colour seen before
ColourDiffers ==
    ValidData /\ ~FirstValidData /\ coordinator_data'.current_slot.phase # prev_phase

\* C23: the entity emits nothing for the first valid data, nothing for an
\* update whose current slot and slot list are unchanged, and one
\* edf_fpd_phase_changed event, from different from to, exactly when the
\* current colour differs from the colour seen before.
C23_EventsOnlyOnTransitions ==
    [][updates' = updates + 1 =>
          /\ FirstValidData => emitted' = <<>>
          /\ UnchangedData => emitted' = <<>>
          /\ Cardinality(PhaseChangedEvents(emitted')) = (IF ColourDiffers THEN 1 ELSE 0)
          /\ \A i \in PhaseChangedEvents(emitted') : emitted'[i].from # emitted'[i].to]_vars

\* the update after the initialising one reads the same data and emits
\* edf_fpd_phase_ending_soon
C23_Witness ==
    /\ updates = 2
    /\ coordinator_data.current_slot # NoNormSlot
    /\ previous_data = coordinator_data
    /\ Len(emitted) = 1
    /\ emitted[1].event_type = "edf_fpd_phase_ending_soon"

\* Lemma: nothing for the first valid data, and edf_fpd_phase_changed once,
\* from different from to, exactly when the colour differs.
PhaseChangedExactlyOnColourChange ==
    [][updates' = updates + 1 =>
          /\ FirstValidData => emitted' = <<>>
          /\ Cardinality(PhaseChangedEvents(emitted')) = (IF ColourDiffers THEN 1 ELSE 0)
          /\ \A i \in PhaseChangedEvents(emitted') :
                /\ emitted'[i].from # emitted'[i].to
                /\ emitted'[i].from = prev_phase
                /\ emitted'[i].to = coordinator_data'.current_slot.phase]_vars

\* Lemma: an update with unchanged data emits at most the ending-soon event.
UnchangedDataEmitsAtMostEndingSoon ==
    [][(updates' = updates + 1 /\ UnchangedData) =>
          \A i \in 1 .. Len(emitted') :
              emitted'[i].event_type = "edf_fpd_phase_ending_soon"]_vars

---------------------------------------------------------------------------
(* C24 *)

\* C24: edf_fpd_phase_ending_soon is emitted at most once per phase window,
\* and only when that window is within 30 minutes of its end.
C24_EndingSoonOncePerWindow ==
    \A i \in EndingSoonEvents(event_history) :
        /\ event_history[i].phase_window.end - event_history[i].at <= ENDING_SOON
        /\ \A j \in EndingSoonEvents(event_history) :
              i # j => event_history[i].phase_window # event_history[j].phase_window

\* two ending-soon events for one window of two slots, the first of them
\* more than 30 minutes before the window's end
C24_Witness ==
    /\ Len(event_history) = 2
    /\ EndingSoonEvents(event_history) = {1, 2}
    /\ event_history[1].phase_window = event_history[2].phase_window
    /\ event_history[1].phase_window.end - event_history[1].at > ENDING_SOON

\* Lemma: the event is emitted at most once per current slot, while that
\* slot is current.
EndingSoonOncePerSlot ==
    \A i \in EndingSoonEvents(event_history) :
        /\ event_history[i].ends_at - event_history[i].at <= ENDING_SOON
        /\ event_history[i].ends_at > event_history[i].at
        /\ \A j \in EndingSoonEvents(event_history) :
              i # j => event_history[i].ends_at # event_history[j].ends_at

---------------------------------------------------------------------------
(* fetch_all_pages *)

\* the urls the API may link to; url 1 is api_url
MaxUrls == 2
\* the largest max_pages passed
MaxPages == 3
\* the results of one page: at most MaxPageResults items
MaxPageResults == 2

Urls == 1 .. MaxUrls

\* item i of the page at url u
PageItems(u, n) == [i \in 1 .. n |-> <<u, i>>]

\* what the API answers at url u: an HTTP error status; a body that is not
\* JSON; a JSON body that is no object (a list, a string, null); or an
\* object whose "results" is missing, is no list, or is a list, and whose
\* "next" is None or a url
PagesAt(u) ==
    {[kind |-> k, results |-> "none", items |-> <<>>, next |-> 0]
        : k \in {"http_error", "not_json", "not_object"}}
    \cup {[kind |-> "object", results |-> r, items |-> <<>>, next |-> n]
              : r \in {"missing", "not_list"}, n \in {0} \cup Urls}
    \cup {[kind |-> "object", results |-> "list", items |-> PageItems(u, c), next |-> n]
              : c \in 0 .. MaxPageResults, n \in {0} \cup Urls}

InitClient ==
    /\ pc = "start"
    /\ ClassifyIdle
    /\ BlocksIdle
    /\ RefreshIdle
    /\ CostIdle
    /\ ForecastIdle /\ HeartbeatIdle /\ PipelineIdle /\ ScheduleIdle
    /\ LookupIdle /\ EventIdle /\ DelayIdle /\ LifecycleIdle
    /\ \E s \in [Urls -> UNION {PagesAt(u) : u \in Urls}] :
          /\ \A u \in Urls : s[u] \in PagesAt(u)
          /\ server = s
    /\ max_pages \in 0 .. MaxPages
    /\ url = 1
    /\ requests = <<>>
    /\ results = NotFetched

ClientOthersUnchanged ==
    UNCHANGED <<classify_vars, block_vars, refresh_vars, cost_vars, forecast_vars,
                heartbeat_vars, pipeline_vars, schedule_vars, lookup_vars, event_vars,
                delay_vars, lifecycle_vars, server, max_pages>>

\* while url and page_count < max_pages
LoopContinues == pc \in {"start", "loop"} /\ url # 0 /\ Len(requests) < max_pages

\* one pass of the loop: the page is requested and answered; the call ends
\* by an exception (raise_for_status, data.get on a body that is no object)
\* or by break and return, or the loop goes on with the next url
FetchPage ==
    /\ LoopContinues
    /\ requests' = Append(requests, url)
    /\ LET page == server[url]
       IN CASE page.kind \in {"http_error", "not_object"} ->
                 /\ pc' = "raised"
                 /\ results' = [raised |-> TRUE, timed_out |-> FALSE, items |-> <<>>]
                 /\ UNCHANGED url
            [] page.kind = "not_json" \/ (page.kind = "object" /\ page.results # "list") ->
                 /\ pc' = "done"
                 /\ UNCHANGED <<results, url>>
            [] OTHER ->
                 /\ pc' = "loop"
                 /\ results' = [results EXCEPT !.items = @ \o page.items]
                 /\ url' = page.next
    /\ ClientOthersUnchanged

\* async_timeout.timeout(10) expires while a page is awaited
FetchTimeout ==
    /\ LoopContinues
    /\ requests' = Append(requests, url)
    /\ pc' = "raised"
    /\ results' = [raised |-> TRUE, timed_out |-> TRUE, items |-> <<>>]
    /\ UNCHANGED url
    /\ ClientOthersUnchanged

\* the loop condition is false: return results
FetchReturns ==
    /\ pc \in {"start", "loop"}
    /\ ~LoopContinues
    /\ pc' = "done"
    /\ UNCHANGED <<url, requests, results>>
    /\ ClientOthersUnchanged

NextClient ==
    \/ FetchPage
    \/ FetchTimeout
    \/ FetchReturns

SpecClient == InitClient /\ [][NextClient]_vars

---------------------------------------------------------------------------
(* C25 *)

\* the results of the pages requested that answered with a results list, in
\* the order requested
RECURSIVE ResultsInPageOrder(_)
ResultsInPageOrder(rs) ==
    IF rs = <<>> THEN <<>>
    ELSE ResultsInPageOrder(Front(rs))
         \o (IF server[Last(rs)].kind = "object" /\ server[Last(rs)].results = "list"
             THEN server[Last(rs)].items ELSE <<>>)

\* request i was answered: the timeout did not expire on it
Answered(i) == ~(i = Len(requests) /\ results.timed_out)

\* the page is not JSON or has no results list
NoResultsList(page) ==
    \/ page.kind \in {"not_json", "not_object"}
    \/ page.kind = "object" /\ page.results # "list"

\* C25: fetch_all_pages requests at most max_pages pages and returns the
\* results of the fetched pages in page order; a page that is not JSON or
\* has no results list ends pagination, and the results collected so far
\* are returned.
C25_BoundedPagesInOrder ==
    /\ Len(requests) <= max_pages
    /\ pc = "done" => results.items = ResultsInPageOrder(requests)
    /\ \A i \in 1 .. Len(requests) :
          (NoResultsList(server[requests[i]]) /\ Answered(i)) =>
              /\ i = Len(requests)
              /\ pc = "done"
              /\ ~results.raised
              /\ results.items = ResultsInPageOrder(Front(requests))

\* the second page is JSON but no object: the call ends by an exception
\* and the results of the first page are not returned
C25_Witness ==
    /\ pc = "raised"
    /\ Len(requests) = 2
    /\ server[requests[1]].items # <<>>
    /\ server[requests[2]].kind = "not_object"
    /\ results.raised
    /\ ~results.timed_out

\* Lemma: at most max_pages requests, results in page order, and a page that
\* is not JSON or is an object without a results list ends the call with the
\* results collected so far.
PagesBoundedAndInOrder ==
    /\ Len(requests) <= max_pages
    /\ pc = "done" => results.items = ResultsInPageOrder(requests) /\ ~results.raised
    /\ \A i \in 1 .. Len(requests) :
          LET page == server[requests[i]]
          IN ((page.kind = "not_json" \/ (page.kind = "object" /\ page.results # "list"))
              /\ Answered(i)) =>
                 /\ i = Len(requests)
                 /\ pc = "done"
                 /\ results.items = ResultsInPageOrder(Front(requests))

\* Lemma: every page links to itself and max_pages pages were fetched
EveryPageHasNextLink ==
    (pc = "done" /\ \A u \in Urls : server[u].kind = "object" /\ server[u].next # 0
                                    /\ server[u].results = "list") =>
        Len(requests) = max_pages

---------------------------------------------------------------------------
(* AlignedScheduler._compute_delay, called at any instants *)

\* the calls of one behaviour
MaxDelayCalls == 3

InitDelay ==
    /\ pc = "start"
    /\ ClassifyIdle
    /\ BlocksIdle
    /\ RefreshIdle
    /\ CostIdle
    /\ ForecastIdle /\ HeartbeatIdle /\ PipelineIdle
    /\ LookupIdle /\ EventIdle /\ ClientIdle /\ LifecycleIdle
    /\ DelayIdle
    /\ scan_steps \in {MinScanSteps, MinScanSteps + 1}
    /\ sched_now \in 0 .. MinScanSteps
    /\ boundary = NoTime
    /\ timer = NoTime
    /\ in_flight = {}
    /\ started = 0

DelayOthersUnchanged ==
    UNCHANGED <<classify_vars, block_vars, refresh_vars, cost_vars, forecast_vars,
                heartbeat_vars, pipeline_vars, lookup_vars, event_vars, client_vars,
                lifecycle_vars, scan_steps, timer, in_flight, started>>

\* one call _compute_delay(): the boundary is initialised if it is not and
\* advanced past now, and the delay is the time to it plus the jitter
ComputeDelay ==
    /\ delay_calls < MaxDelayCalls
    /\ \E jitter \in 0 .. JitterSteps :
          /\ next_refresh_jitter' = jitter
          /\ next_refresh_delay' = seconds_until_boundary(boundary, sched_now, scan_steps) + jitter
    /\ boundary' = advance_boundary(initialise_boundary(boundary, sched_now, scan_steps),
                                    sched_now, scan_steps)
    /\ delay_calls' = delay_calls + 1
    /\ pc' = "done"
    /\ UNCHANGED sched_now
    /\ DelayOthersUnchanged

\* any time passes between two calls
TimePasses ==
    /\ \E later \in (sched_now + 1) .. MaxTime : sched_now' = later
    /\ UNCHANGED <<pc, boundary, delay_vars>>
    /\ DelayOthersUnchanged

NextDelay ==
    \/ ComputeDelay
    \/ TimePasses

SpecDelay == InitDelay /\ [][NextDelay]_vars

---------------------------------------------------------------------------
(* C26 *)

\* C26: at every call that computes a delay, the boundary is the next
\* aligned boundary strictly after now, at most one scan interval away, the
\* jitter is within 0 .. 5 s, and the delay is greater than 0 and at most
\* the scan interval plus 5 s, however much time passed since the call
\* before.
C26_DelayWithinOneInterval ==
    [][delay_calls' = delay_calls + 1 =>
          /\ sched_now < boundary'
          /\ boundary' <= sched_now + scan_steps
          /\ boundary' % scan_steps = 0
          /\ next_refresh_jitter' \in 0 .. JitterSteps
          /\ next_refresh_delay' > 0
          /\ next_refresh_delay' <= scan_steps + JitterSteps
          /\ next_refresh_delay' = boundary' - sched_now + next_refresh_jitter']_vars

\* a second call more than two scan intervals after the first: the boundary
\* was advanced past two boundaries that were missed
C26_Witness ==
    /\ delay_calls = 2
    /\ boundary >= 3 * scan_steps
    /\ boundary - scan_steps <= sched_now
    /\ sched_now < boundary
    /\ next_refresh_delay = boundary - sched_now + next_refresh_jitter

---------------------------------------------------------------------------
(* C28 *)

\* slot i of the slots passed in, clamped to end_override
ClampedSlot(i) == NormSlot(cost_slots[i], end_override)

\* the quantity the deltas of the call prorate to slot i
ProratedKwh(i) == slot_kwh(ClampedSlot(i), deltas)

\* slot i has a duration and overlaps a delta with a quantity
OverlapsDelta(i) ==
    /\ cost_slots[i].start_dt # NoTime
    /\ cost_slots[i].end_dt # NoTime
    /\ ClampedSlot(i).end > ClampedSlot(i).start
    /\ ProratedKwh(i) > 0

\* slot i is in per_slot with its prorated quantity and quantity x price
InPerSlot(i) ==
    \E j \in 1 .. Len(summary.per_slot) :
        /\ summary.per_slot[j].start = ClampedSlot(i).start
        /\ summary.per_slot[j].end = ClampedSlot(i).end
        /\ summary.per_slot[j].kwh = round4(ProratedKwh(i), KwhDen)
        /\ summary.per_slot[j].price_p_per_kwh = cost_slots[i].value
        /\ summary.per_slot[j].cost_gbp = round4(ProratedKwh(i) * cost_slots[i].value, CostDen)

\* the quantities of all the slots that overlap a delta, whatever their price
RECURSIVE ProratedTotal(_)
ProratedTotal(n) ==
    IF n = 0 THEN 0
    ELSE ProratedTotal(n - 1) + (IF OverlapsDelta(n) THEN ProratedKwh(n) ELSE 0)

PricedAtMostZero(i) == cost_slots[i].value <= 0

\* C28: an interval priced at 0 or below that overlaps a delta takes part
\* in proration like any other: it appears in per_slot with its prorated
\* quantity and cost quantity x price / 100, and counts toward total_kwh.
C28_NonPositivePriceProrated ==
    (pc = "done" /\ ~summary.is_none) =>
        \A i \in 1 .. Len(cost_slots) :
            (PricedAtMostZero(i) /\ OverlapsDelta(i)) =>
                /\ InPerSlot(i)
                /\ summary.total_kwh = round4(ProratedTotal(Len(cost_slots)), KwhDen)

\* a slot priced 0 between two priced slots overlaps a delta and is in
\* neither per_slot nor total_kwh
C28_Witness ==
    /\ pc = "done"
    /\ ~summary.is_none
    /\ \E i \in 1 .. Len(cost_slots) :
          /\ cost_slots[i].value = 0
          /\ OverlapsDelta(i)
          /\ ~InPerSlot(i)
          /\ summary.total_kwh < round4(ProratedTotal(Len(cost_slots)), KwhDen)

\* Lemma: every slot priced otherwise than 0 that overlaps a delta takes
\* part, the negatively priced ones with a negative cost; and when no slot
\* is priced 0 the total is the sum of all prorated quantities.
NonZeroPriceProrated ==
    (pc = "done" /\ ~summary.is_none) =>
        /\ \A i \in 1 .. Len(cost_slots) :
              (cost_slots[i].value # 0 /\ OverlapsDelta(i)) => InPerSlot(i)
        /\ (\A i \in 1 .. Len(cost_slots) : cost_slots[i].value # 0) =>
              summary.total_kwh = round4(ProratedTotal(Len(cost_slots)), KwhDen)

\* Lemma: no slot priced 0 is ever in per_slot.
ZeroPricedNeverInPerSlot ==
    pc = "done" =>
        \A j \in 1 .. Len(summary.per_slot) : summary.per_slot[j].price_p_per_kwh # 0

---------------------------------------------------------------------------
(* EDFCoordinator from the first refresh to async_shutdown.  The repository
   holds two EDFCoordinator classes: the one of coordinator_20260124081611.py
   schedules through AlignedScheduler, the one of coordinator.py schedules by
   itself *)

Revisions == {"scheduler", "inline"}

\* The mutant of C29: the next callback is set after a successful refresh only.
schedules_after_success_only(rev, by, ok) == ok /\ (by = "first" \/ rev = "inline")

\* the refresh that returned is followed by a call that sets the next
\* callback: async_config_entry_first_refresh does so in both classes,
\* _handle_refresh in coordinator.py only, whatever the refresh returned
schedules_after_refresh(rev, by, ok) == by = "first" \/ rev = "inline"

\* _handle_refresh sets the next callback before it awaits the refresh
schedules_before_refresh(rev) == rev = "scheduler"

\* the longest a refresh stays suspended: its three fetches time out
RefreshTimeoutSteps ==
    stage_timeout("metadata") + stage_timeout("standing") + stage_timeout("interval")

\* async_refresh called by the first refresh or by _handle_refresh
NewRefresh(id, by) == [id |-> id, by |-> by, deadline |-> sched_now + RefreshTimeoutSteps]

\* schedule / _schedule_next_refresh on the callbacks cbs: the callback of
\* the handle is cancelled and a callback is set after the delay
ScheduleNext(cbs, jitter) ==
    /\ boundary' = advance_boundary(initialise_boundary(boundary, sched_now, scan_steps),
                                    sched_now, scan_steps)
    /\ callbacks' = {cb \in cbs : cb.id # unsub}
                    \cup {[id |-> scheduled + 1,
                           at |-> sched_now
                                  + seconds_until_boundary(boundary, sched_now, scan_steps)
                                  + jitter]}
    /\ unsub' = scheduled + 1
    /\ scheduled' = scheduled + 1

InitLifecycle ==
    /\ pc = "start"
    /\ ClassifyIdle
    /\ BlocksIdle
    /\ RefreshIdle
    /\ CostIdle
    /\ ForecastIdle /\ HeartbeatIdle /\ PipelineIdle
    /\ LookupIdle /\ EventIdle /\ ClientIdle /\ DelayIdle
    /\ scan_steps \in {MinScanSteps, MinScanSteps + 1}
    /\ sched_now \in 0 .. MinScanSteps - 1
    /\ boundary = NoTime
    /\ timer = NoTime
    /\ in_flight = {}
    /\ started = 0
    /\ revision \in Revisions
    /\ callbacks = {}
    /\ unsub = 0
    /\ scheduled = 0
    /\ failed_refresh = 0
    /\ shutdown_done = FALSE
    /\ started_at_shutdown = 0

LifecycleOthersUnchanged ==
    UNCHANGED <<pc, classify_vars, block_vars, refresh_vars, cost_vars, forecast_vars,
                heartbeat_vars, pipeline_vars, lookup_vars, event_vars, client_vars,
                delay_vars, scan_steps, timer, revision>>

\* async_setup_entry calls async_config_entry_first_refresh: the first
\* refresh starts
SetupFirstRefresh ==
    /\ started = 0
    /\ in_flight' = {NewRefresh(1, "first")}
    /\ started' = 1
    /\ UNCHANGED <<sched_now, boundary, callbacks, unsub, scheduled, failed_refresh,
                    shutdown_done, started_at_shutdown>>
    /\ LifecycleOthersUnchanged

\* a refresh returns, its fetch having failed or not, by its timeouts at the
\* latest, and its caller goes on: to the listeners, and to the call that
\* sets the next callback where the caller makes one
RefreshReturns ==
    /\ \E c \in in_flight, ok \in BOOLEAN :
          /\ in_flight' = in_flight \ {c}
          /\ failed_refresh' = IF ok THEN failed_refresh ELSE c.id
          /\ IF schedules_after_refresh(revision, c.by, ok)
             THEN \E jitter \in 0 .. JitterSteps : ScheduleNext(callbacks, jitter)
             ELSE UNCHANGED <<boundary, callbacks, unsub, scheduled>>
    /\ UNCHANGED <<sched_now, started, shutdown_done, started_at_shutdown>>
    /\ LifecycleOthersUnchanged

\* a callback is due: _handle_refresh runs up to the await of its refresh
CallbackFires ==
    /\ \E cb \in callbacks :
          /\ cb.at = sched_now
          /\ IF schedules_before_refresh(revision)
             THEN \E jitter \in 0 .. JitterSteps : ScheduleNext(callbacks \ {cb}, jitter)
             ELSE /\ callbacks' = callbacks \ {cb}
                  /\ UNCHANGED <<boundary, unsub, scheduled>>
    /\ in_flight' = in_flight \cup {NewRefresh(started + 1, "handler")}
    /\ started' = started + 1
    /\ UNCHANGED <<sched_now, failed_refresh, shutdown_done, started_at_shutdown>>
    /\ LifecycleOthersUnchanged

\* async_unload_entry calls async_shutdown, once the set-up is over: the
\* callback of the handle is cancelled and the handle dropped
AsyncShutdown ==
    /\ ~shutdown_done
    /\ started >= 1
    /\ \A c \in in_flight : c.by # "first"
    /\ callbacks' = {cb \in callbacks : cb.id # unsub}
    /\ unsub' = 0
    /\ shutdown_done' = TRUE
    /\ started_at_shutdown' = started
    /\ UNCHANGED <<sched_now, boundary, in_flight, started, scheduled, failed_refresh>>
    /\ LifecycleOthersUnchanged

\* five seconds pass: no callback is due and no refresh is past its timeouts
StepPasses ==
    /\ sched_now < MaxTime
    /\ started >= 1
    /\ \A cb \in callbacks : cb.at # sched_now
    /\ \A c \in in_flight : c.deadline > sched_now
    /\ sched_now' = sched_now + 1
    /\ UNCHANGED <<boundary, in_flight, started, callbacks, unsub, scheduled, failed_refresh,
                    shutdown_done, started_at_shutdown>>
    /\ LifecycleOthersUnchanged

NextLifecycle ==
    \/ SetupFirstRefresh
    \/ RefreshReturns
    \/ CallbackFires
    \/ AsyncShutdown
    \/ StepPasses

SpecLifecycle == InitLifecycle /\ [][NextLifecycle]_vars

\* the event loop runs what is ready: a due callback is called, a refresh
\* returns (its fetches time out), and time goes on
SpecLifecycleFair ==
    /\ SpecLifecycle
    /\ WF_vars(SetupFirstRefresh)
    /\ WF_vars(RefreshReturns)
    /\ WF_vars(CallbackFires)
    /\ WF_vars(StepPasses)

---------------------------------------------------------------------------
(* C27 *)

\* C27: after async_shutdown has returned, no callback is pending and no
\* refresh is started again, even when a refresh started by _handle_refresh
\* was in progress when it was called.
C27_NothingAfterShutdown ==
    shutdown_done => callbacks = {} /\ started = started_at_shutdown

\* coordinator.py: shutdown returned while a refresh of _handle_refresh was
\* in progress; the refresh returned and a callback is pending
C27_Witness ==
    /\ revision = "inline"
    /\ shutdown_done
    /\ started_at_shutdown >= 2
    /\ in_flight = {}
    /\ callbacks # {}
    /\ unsub # 0

\* Lemma: with AlignedScheduler nothing follows the shutdown.
NothingAfterSchedulerShutdown ==
    (shutdown_done /\ revision = "scheduler") =>
        callbacks = {} /\ started = started_at_shutdown

\* A state that is reached: in coordinator.py a refresh starts after the shutdown.
RefreshStartedAfterShutdown ==
    /\ revision = "inline"
    /\ shutdown_done
    /\ started > started_at_shutdown

---------------------------------------------------------------------------
(* C29 *)

\* async_config_entry_first_refresh has got its refresh back
FirstRefreshReturned == started >= 1 /\ \A c \in in_flight : c.by # "first"

\* the refreshes that fit before the last instant modelled
MaxStarted == (MaxTime \div MinScanSteps) + 1

\* the next refresh is due before the last instant modelled, even when the
\* refresh in progress uses up its timeouts
RoomForNextRefresh ==
    sched_now + RefreshTimeoutSteps + scan_steps + JitterSteps <= MaxTime

\* between the first refresh and the shutdown a callback is pending or a
\* refresh is in progress whose caller will set one, never two callbacks
OneCallbackPending ==
    /\ Cardinality(callbacks) <= 1
    /\ (FirstRefreshReturned /\ ~shutdown_done) =>
          /\ callbacks # {} \/ in_flight # {}
          /\ \A cb \in callbacks :
                cb.at >= sched_now /\ cb.at <= sched_now + scan_steps + JitterSteps

=======================================================================
